---- MODULE Spec2Model ----
(***************************************************************************)
(* A state-machine model of prodtracker's trust-and-enforcement pipeline:  *)
(* device pairing and HMAC-authenticated heartbeats (api/phone.py), the    *)
(* Redis fixed-window rate limiter and heartbeat window, the policy        *)
(* evaluation, and the hosts-file blocker (blocker/*.py) driven by the     *)
(* policy, the scheduler, the manual endpoints and the monitor loop.       *)
(***************************************************************************)
EXTENDS Integers, Sequences, FiniteSets, TLC

(***************************************************************************)
(* Bounds of the model (not program constants).                            *)
(***************************************************************************)
MaxSecrets == 2
MaxTasks == 2
MaxRlCount == 62
MaxElapsed == 120
MaxRecords == 2
MaxEvents == 4
MaxHostsLines == 40
StartTime == 259140            \* 23:59:00 UTC of some day
HalfWindow == 30
StoreStep == 200
StoreElapsed == 600
MaxBurst == 2
WindowStep == 200
WindowElapsed == 600
MaxLead == 3
LongInterval == 90
LongLead == 30
DailyStep == 15
DailyElapsed == 60
BlockElapsed == 60
TzEast == 3600                 \* local time is UTC+1

(***************************************************************************)
(* Program constants.                                                      *)
(***************************************************************************)
HEARTBEAT_RATE_LIMIT == 60
HEARTBEAT_RATE_WINDOW_SECONDS == 60
HEARTBEAT_WINDOW_SECONDS == 300
PC_WINDOW_SECONDS == 120          \* timedelta(minutes=2)
PC_EVENT_LIMIT == 20              \* .limit(20)
SCREEN_ON_THRESHOLD == 2          \* screen_on_count >= 2
MONITOR_INTERVAL == 5             \* background_monitor_and_block(interval=5)
SECONDS_PER_DAY == 86400

VARIABLES
    now,        \* the true time, seconds since the epoch (UTC)
    tzOffset,   \* the server's local UTC offset in seconds (environment)
    redisUp,    \* whether the Redis server answers (environment)
    devices,    \* the Device table: device_id -> row, or NoRow
    secretCtr,  \* how many secrets secrets.token_hex has produced
    issued,     \* history: device_id -> the secrets pair() returned for it, in order
    rl,         \* Redis key rl:hb:{device_id}: [count, exp]; count 0 = no key
    rlPassed,   \* history: requests that passed the limiter in the key's lifetime
    req,        \* in-flight heartbeat handlers (between INCR and the response)
    hbz,        \* Redis key hb:{device_id}: [set, exp]; empty set = no key
    tasks,      \* BackgroundTasks queue: device ids awaiting evaluate_device_state
    events,     \* the Event table, in insertion order
    records,    \* the BlockRecord table; a record's id is its index
    applied,    \* history: ids of the records whose rule-list append succeeded
    jobs,       \* the scheduler's pending one-shot jobs
    hosts,      \* the hosts file: [lines, eol]
    hosts0,     \* history: the hosts file as the process found it
    hostsWritable, \* whether opening the hosts file for writing succeeds (environment)
    backups,    \* the backup directory: a set of [name, content]
    monitor,    \* the monitor thread: [alive, next, interval]; next is the end of
                \* its time.sleep(interval)
    running,    \* the API process is up (between lifespan startup and shutdown)
    last,       \* the last step taken and its response (observation)
    unb,        \* an unblock_all between its read and its rewrite: [pc, id, content,
                \* seen]; seen (history) is the number of lines it read
    schedReal,  \* whether apscheduler could be imported (environment, fixed per run)
    outbox,     \* the clients: device_id -> [reports, sent], the timestamps of the
                \* reports the device posts, in order, and how many it has posted
    pairing     \* in-flight pair handlers: the locals of pair() between its
                \* query, its commit and its response

authVars == <<devices, secretCtr, issued, pairing>>
rateVars == <<rl, rlPassed, req>>
blockVars == <<events, records, applied, jobs, hosts, hosts0, backups, monitor, running,
               unb>>
srvVars == <<now, tzOffset, redisUp, hostsWritable, schedReal>>
envVars == <<srvVars, outbox>>

vars == <<now, tzOffset, redisUp, devices, secretCtr, issued, rl, rlPassed,
          req, hbz, tasks, events, records, applied, jobs, hosts, hosts0,
          hostsWritable, backups, monitor, running, last, unb, schedReal, outbox, pairing>>

\* Column defaults and absent values, typed like the values they stand in for
NoSecret == 0        \* Device.secret is NULL (or empty)
NoTTL == -1          \* a Redis key without expiry (TTL -1)
NoSig == <<>>        \* signature absent or empty
NoneApp == <<>>      \* foreground_app is None; <<s>> is the string s
NoClaim == "None"    \* the token carries no device_id claim
NoOutbox == [d \in {"d1", "d2"} |-> [reports |-> <<>>, sent |-> 0]]
NoRow == [exists |-> FALSE, name |-> "", paired |-> FALSE, secret |-> NoSecret,
          last_seen |-> 0]

DeviceIds == {"d1", "d2"}
Names == {"pixel", "iphone"}

(***************************************************************************)
(* Strings the code inspects character by character are sequences of       *)
(* one-character strings.                                                  *)
(***************************************************************************)
Contains(s, k) ==
    \E i \in 1..(Len(s) - Len(k) + 1) : SubSeq(s, i, i + Len(k) - 1) = k

LowerChar(c) ==
    CASE c = "Y" -> "y"
      [] c = "T" -> "t"
      [] c = "N" -> "n"
      [] c = "C" -> "c"
      [] c = "F" -> "f"
      [] OTHER -> c

Lower(s) == [i \in 1..Len(s) |-> LowerChar(s[i])]

(***************************************************************************)
(* datetime: [wall, aware].  An aware value carries UTC offset 0; a naive  *)
(* one carries none, and datetime.timestamp() reads it as local time.      *)
(***************************************************************************)
UtcNow == [wall |-> now, aware |-> FALSE]

Timestamp(dt) == IF dt.aware THEN dt.wall ELSE dt.wall - tzOffset

\* pydantic's parse of the wire timestamp, and datetime.isoformat()
ParseDatetime(w) == [wall |-> w.wall, aware |-> w.zone # "naive"]

IsoFormat(dt) == [wall |-> dt.wall, zone |-> IF dt.aware THEN "+00:00" ELSE "naive"]

(***************************************************************************)
(* Crypto helpers.  HMAC-SHA256 is modelled as an injective function of    *)
(* the key and the message; hexdigest and compare_digest as equality.      *)
(***************************************************************************)
HmacSha256(secret, body) == <<"hmac", secret, body>>

\* a faulty verify_hmac: the digest is compared without the key taking part
verify_hmac_AnyKey(secret, body, signature_hex) ==
    Len(signature_hex) = 3 /\ signature_hex[3] = body

verify_hmac(secret, body, signature_hex) == HmacSha256(secret, body) = signature_hex

\* json.dumps(unsigned_payload, separators=(",", ":"), sort_keys=True)
CanonicalPayload(device_id, timestamp_str, screen_on, foreground_app) ==
    << <<"device_id", device_id>>,
       <<"foreground_app", foreground_app>>,
       <<"screen_on", screen_on>>,
       <<"timestamp", timestamp_str>> >>

(***************************************************************************)
(* Pairing tokens: a JWT is [device_id, key, expired].  jwt.decode raises  *)
(* InvalidTokenError unless the token is signed with PAIRING_JWT_SECRET    *)
(* and has not expired.                                                    *)
(***************************************************************************)
PAIRING_JWT_SECRET == "server-key"

\* a faulty decode: the token's signature is not verified
JwtDecode_NoVerify(token) ==
    [valid |-> ~token.expired, device_id |-> token.device_id]

JwtDecode(token) ==
    IF token.key = PAIRING_JWT_SECRET /\ ~token.expired
    THEN [valid |-> TRUE, device_id |-> token.device_id]
    ELSE [valid |-> FALSE, device_id |-> NoClaim]

Token(device_id, key, expired) ==
    [device_id |-> device_id, key |-> key, expired |-> expired]

\* tokens a client may present: well signed for either device or without the
\* claim, signed with another key, or expired
Tokens ==
    {Token(c, PAIRING_JWT_SECRET, FALSE) : c \in DeviceIds \cup {NoClaim}}
    \cup {Token("d1", "other-key", FALSE), Token("d1", PAIRING_JWT_SECRET, TRUE)}

(***************************************************************************)
(* Redis: the fixed-window counter rl:hb:{device_id}.                      *)
(***************************************************************************)
NoKey == [count |-> 0, exp |-> NoTTL]

\* a faulty INCR: it counts a request twice
RedisIncr_Twice(k) == [k EXCEPT !.count = @ + 2]

\* INCR: creates the key at 1 (without expiry) or adds one, atomically
RedisIncr(k) == [k EXCEPT !.count = @ + 1]

\* EXPIRE key seconds
RedisExpire(k, seconds) == IF k.count = 0 THEN k ELSE [k EXCEPT !.exp = now + seconds]

\* a key whose expiry has been reached at time t no longer exists
RlAt(k, t) == IF k.exp # NoTTL /\ k.exp <= t THEN NoKey ELSE k

\* if count > HEARTBEAT_RATE_LIMIT: raise 429
\* a faulty comparison: one request too many passes
RateLimited_OffByOne(count) == count > HEARTBEAT_RATE_LIMIT + 1

RateLimited(count) == count > HEARTBEAT_RATE_LIMIT

\* if count == 1: redis_client.expire(...)
FirstInWindow(count) == count = 1

(***************************************************************************)
(* Redis: the heartbeat window hb:{device_id}, a sorted set scored by the  *)
(* report's timestamp.  A member is the JSON text of the entry, so the set *)
(* holds each distinct entry once.                                         *)
(***************************************************************************)
NoZSet == [set |-> {}, exp |-> NoTTL]

ZAt(z, t) == IF z.exp # NoTTL /\ z.exp <= t THEN NoZSet ELSE z

\* (hb.foreground_app or "").lower()
AppLabel(foreground_app) ==
    IF foreground_app = NoneApp THEN <<>> ELSE Lower(foreground_app[1])

\* cutoff_ts = datetime.utcnow().timestamp() - HEARTBEAT_WINDOW_SECONDS
CutoffTs == Timestamp(UtcNow) - HEARTBEAT_WINDOW_SECONDS

\* a faulty store_heartbeat_in_redis: the member carries one "#" per entry
\* already held, so a report submitted again is a new member
StoreHeartbeat_KeepsEach(z, timestamp, screen_on, foreground_app) ==
    LET ts == Timestamp(timestamp)
        entry == [ts |-> ts, screen_on |-> screen_on,
                  foreground_app |-> AppLabel(foreground_app)
                                        \o [i \in 1..Cardinality(z.set) |-> "#"]]
        added == z.set \cup {entry}
        kept == {e \in added : ~(0 <= e.ts /\ e.ts <= CutoffTs)}
    IN  IF kept = {} THEN NoZSet
        ELSE [set |-> kept, exp |-> now + HEARTBEAT_WINDOW_SECONDS * 2]

\* a faulty store_heartbeat_in_redis: the pipeline lacks the EXPIRE
StoreHeartbeat_NoExpire(z, timestamp, screen_on, foreground_app) ==
    LET ts == Timestamp(timestamp)
        entry == [ts |-> ts, screen_on |-> screen_on,
                  foreground_app |-> AppLabel(foreground_app)]
        added == z.set \cup {entry}
        kept == {e \in added : ~(0 <= e.ts /\ e.ts <= CutoffTs)}
    IN  IF kept = {} THEN NoZSet ELSE [set |-> kept, exp |-> z.exp]

\* the pipeline of store_heartbeat_in_redis: ZADD, ZREMRANGEBYSCORE 0 cutoff,
\* EXPIRE 2 * window (MULTI/EXEC, hence one step)
StoreHeartbeat(z, timestamp, screen_on, foreground_app) ==
    LET ts == Timestamp(timestamp)
        entry == [ts |-> ts, screen_on |-> screen_on,
                  foreground_app |-> AppLabel(foreground_app)]
        added == z.set \cup {entry}
        kept == {e \in added : ~(0 <= e.ts /\ e.ts <= CutoffTs)}
    IN  IF kept = {} THEN NoZSet
        ELSE [set |-> kept, exp |-> now + HEARTBEAT_WINDOW_SECONDS * 2]

\* load_recent_heartbeats: ZRANGEBYSCORE key cutoff +inf
LoadRecentHeartbeats(device_id) ==
    {e \in hbz[device_id].set : e.ts >= CutoffTs}

(***************************************************************************)
(* The observation of the last completed request.                          *)
(***************************************************************************)
NoBody == <<>>

NoArg == <<>>

\* arg: the request as received; sig, body: the signature submitted and the bytes
\* the server computed the HMAC over; secret: the secret in a pair response
Obs(op, dev, status, detail, arg, sig, body, secret) ==
    [op |-> op, dev |-> dev, status |-> status, detail |-> detail, arg |-> arg,
     sig |-> sig, body |-> body, secret |-> secret]

Note(op, dev, status, detail) ==
    Obs(op, dev, status, detail, NoArg, NoSig, NoBody, NoSecret)

(***************************************************************************)
(* POST /pair                                                              *)
(***************************************************************************)
\* secrets.token_hex(32): 256 random bits, a value never produced before
\* a faulty generator: it returns the value it returned last time
token_hex_Repeats == IF secretCtr = 0 THEN secretCtr + 1 ELSE secretCtr

token_hex == secretCtr + 1

Pair(device_id, name, token) ==
    LET payload == JwtDecode(token)
        arg == [name |-> name, token |-> token]
        Reject(detail) ==
            /\ last' = Obs("pair", device_id, 403, detail, arg, NoSig, NoBody, NoSecret)
            /\ UNCHANGED <<devices, secretCtr, issued>>
    IN
    /\ running
    /\ IF ~payload.valid THEN Reject("invalid pairing token")
       ELSE IF payload.device_id # device_id THEN Reject("token/device mismatch")
       ELSE LET secret == token_hex
                device == devices[device_id]
            IN  /\ secretCtr < MaxSecrets
                /\ secretCtr' = secretCtr + 1
                /\ devices' = [devices EXCEPT ![device_id] =
                       IF device.exists
                       THEN [device EXCEPT !.name = name, !.paired = TRUE,
                                           !.secret = secret]
                       ELSE [exists |-> TRUE, name |-> name, paired |-> TRUE,
                             secret |-> secret, last_seen |-> UtcNow.wall]]
                /\ issued' = [issued EXCEPT ![device_id] = Append(@, secret)]
                /\ last' = Obs("pair", device_id, 200, "paired", arg, NoSig, NoBody,
                               secret)
    /\ UNCHANGED <<envVars, rateVars, hbz, tasks, blockVars, pairing>>

(***************************************************************************)
(* POST /pair, step by step.  pair() is a plain def: the framework runs it *)
(* on a worker thread, each call with a database session of its own, so    *)
(* calls interleave between the query, the commit and the response.        *)
(***************************************************************************)
PairHandlers == {"p1", "p2"}

\* a handler's locals: req.name, req.token, secret, and device as the query
\* returned it (NoRow for None)
IdlePair == [pc |-> "idle", dev |-> "", name |-> "", token |-> Token("", "", FALSE),
             secret |-> NoSecret, device |-> NoRow]

NoPairing == [h \in PairHandlers |-> IdlePair]

\* the token checks, secrets.token_hex and the query for the Device row
PairQuery(h, device_id, name, token) ==
    LET payload == JwtDecode(token)
        Reject(detail) ==
            /\ last' = Obs("pair", device_id, 403, detail,
                           [name |-> name, token |-> token], NoSig, NoBody, NoSecret)
            /\ UNCHANGED <<secretCtr, pairing>>
    IN
    /\ running
    /\ pairing[h].pc = "idle"
    /\ IF ~payload.valid THEN Reject("invalid pairing token")
       ELSE IF payload.device_id # device_id THEN Reject("token/device mismatch")
       ELSE /\ secretCtr < MaxSecrets
            /\ secretCtr' = secretCtr + 1
            /\ pairing' = [pairing EXCEPT ![h] =
                               [pc |-> "commit", dev |-> device_id, name |-> name,
                                token |-> token, secret |-> token_hex,
                                device |-> devices[device_id]]]
            /\ last' = Note("pair_query", device_id, 0, "")
    /\ UNCHANGED <<envVars, devices, issued, rateVars, hbz, tasks, blockVars>>

\* db.commit(): the session flushes an UPDATE of the attributes that differ from
\* the row as loaded, or the INSERT of the new row, which the UNIQUE index on
\* device_id refuses when a row of that device_id exists by now
PairCommit(h) ==
    LET p == pairing[h]
        row == devices[p.dev]
    IN
    /\ running
    /\ p.pc = "commit"
    /\ IF p.device.exists
       THEN /\ devices' = [devices EXCEPT ![p.dev] =
                    [row EXCEPT !.name = IF p.name # p.device.name THEN p.name ELSE @,
                                !.paired = IF ~p.device.paired THEN TRUE ELSE @,
                                !.secret = p.secret]]
            /\ pairing' = [pairing EXCEPT ![h].pc = "respond"]
            /\ last' = Note("pair_commit", p.dev, 0, "update")
       ELSE IF row.exists
       THEN \* sqlalchemy.exc.IntegrityError, caught nowhere
            /\ pairing' = [pairing EXCEPT ![h] = IdlePair]
            /\ last' = Obs("pair", p.dev, 500, "Internal Server Error",
                           [name |-> p.name, token |-> p.token], NoSig, NoBody,
                           NoSecret)
            /\ UNCHANGED devices
       ELSE /\ devices' = [devices EXCEPT ![p.dev] =
                    [exists |-> TRUE, name |-> p.name, paired |-> TRUE,
                     secret |-> p.secret, last_seen |-> UtcNow.wall]]
            /\ pairing' = [pairing EXCEPT ![h].pc = "respond"]
            /\ last' = Note("pair_commit", p.dev, 0, "insert")
    /\ UNCHANGED <<envVars, secretCtr, issued, rateVars, hbz, tasks, blockVars>>

\* return PairResponse(status="paired", secret=secret)
PairRespond(h) ==
    LET p == pairing[h] IN
    /\ running
    /\ p.pc = "respond"
    /\ issued' = [issued EXCEPT ![p.dev] = Append(@, p.secret)]
    /\ pairing' = [pairing EXCEPT ![h] = IdlePair]
    /\ last' = Obs("pair", p.dev, 200, "paired", [name |-> p.name, token |-> p.token],
                   NoSig, NoBody, p.secret)
    /\ UNCHANGED <<envVars, devices, secretCtr, rateVars, hbz, tasks, blockVars>>

\* a faulty handler body: the device and the signature are checked first, the
\* limiter's verdict is applied last
HeartbeatBody_AuthFirst(device_id, wire_ts, screen_on, foreground_app, signature, limited) ==
    LET device == devices[device_id]
        timestamp == ParseDatetime(wire_ts)
        payload_bytes == CanonicalPayload(device_id, IsoFormat(timestamp), screen_on,
                                          foreground_app)
        arg == [timestamp |-> wire_ts, screen_on |-> screen_on,
                foreground_app |-> foreground_app]
        Reject(status, detail, built) ==
            /\ last' = Obs("heartbeat", device_id, status, detail, arg, signature,
                           IF built THEN payload_bytes ELSE NoBody, NoSecret)
            /\ UNCHANGED <<devices, hbz, tasks>>
    IN  IF ~device.exists \/ ~device.paired
        THEN Reject(403, "device not paired", FALSE)
        ELSE IF device.secret = NoSecret
        THEN Reject(500, "device secret missing", FALSE)
        ELSE IF signature = NoSig THEN Reject(403, "missing signature", TRUE)
        ELSE IF ~verify_hmac(device.secret, payload_bytes, signature)
        THEN Reject(403, "invalid signature", TRUE)
        ELSE IF limited THEN Reject(429, "Too many heartbeats; slow down.", TRUE)
        ELSE /\ devices' = [devices EXCEPT ![device_id].last_seen = now]
             /\ hbz' = IF redisUp
                       THEN [hbz EXCEPT ![device_id] =
                                StoreHeartbeat(@, timestamp, screen_on, foreground_app)]
                       ELSE hbz
             /\ tasks' = Append(tasks, device_id)
             /\ last' = Obs("heartbeat", device_id, 200, "ok", arg, signature,
                            payload_bytes, NoSecret)

\* a faulty handler body: the evaluation is queued on entry, before the request
\* has been found acceptable
HeartbeatBody_QueuesOnEntry(device_id, wire_ts, screen_on, foreground_app, signature, limited) ==
    LET device == devices[device_id]
        timestamp == ParseDatetime(wire_ts)
        payload_bytes == CanonicalPayload(device_id, IsoFormat(timestamp), screen_on,
                                          foreground_app)
        arg == [timestamp |-> wire_ts, screen_on |-> screen_on,
                foreground_app |-> foreground_app]
        accepted == /\ ~limited /\ device.exists /\ device.paired
                    /\ device.secret # NoSecret /\ signature # NoSig
                    /\ verify_hmac(device.secret, payload_bytes, signature)
    IN  /\ tasks' = Append(tasks, device_id)
        /\ devices' = IF accepted THEN [devices EXCEPT ![device_id].last_seen = now]
                      ELSE devices
        /\ hbz' = IF accepted /\ redisUp
                  THEN [hbz EXCEPT ![device_id] =
                           StoreHeartbeat(@, timestamp, screen_on, foreground_app)]
                  ELSE hbz
        /\ last' = Obs("heartbeat", device_id,
                       IF accepted THEN 200 ELSE IF limited THEN 429 ELSE 403,
                       IF accepted THEN "ok" ELSE "rejected", arg, signature,
                       payload_bytes, NoSecret)

(***************************************************************************)
(* POST /heartbeat, after enforce_heartbeat_rate_limit returned or raised: *)
(* device validation, canonical payload, HMAC check, last_seen, the Redis  *)
(* write, and the queued evaluation.  `limited` is the limiter's verdict.  *)
(***************************************************************************)
HeartbeatBody(device_id, wire_ts, screen_on, foreground_app, signature, limited) ==
    LET device == devices[device_id]
        timestamp == ParseDatetime(wire_ts)
        timestamp_str == IsoFormat(timestamp)
        payload_bytes == CanonicalPayload(device_id, timestamp_str, screen_on,
                                          foreground_app)
        arg == [timestamp |-> wire_ts, screen_on |-> screen_on,
                foreground_app |-> foreground_app]
        \* raise HTTPException; built: the canonical payload exists by then
        Reject(status, detail, built) ==
            /\ last' = Obs("heartbeat", device_id, status, detail, arg, signature,
                           IF built THEN payload_bytes ELSE NoBody, NoSecret)
            /\ UNCHANGED <<devices, hbz, tasks>>
    IN  IF limited THEN Reject(429, "Too many heartbeats; slow down.", FALSE)
        ELSE IF ~device.exists \/ ~device.paired
        THEN Reject(403, "device not paired", FALSE)
        ELSE IF device.secret = NoSecret
        THEN Reject(500, "device secret missing", FALSE)
        ELSE IF signature = NoSig THEN Reject(403, "missing signature", TRUE)
        ELSE IF ~verify_hmac(device.secret, payload_bytes, signature)
        THEN Reject(403, "invalid signature", TRUE)
        ELSE /\ devices' = [devices EXCEPT ![device_id].last_seen = now]
             /\ hbz' = IF redisUp
                       THEN [hbz EXCEPT ![device_id] =
                                StoreHeartbeat(@, timestamp, screen_on, foreground_app)]
                       ELSE hbz                  \* "Redis error", printed
             /\ tasks' = Append(tasks, device_id)
             /\ last' = Obs("heartbeat", device_id, 200, "ok", arg, signature,
                            payload_bytes, NoSecret)

\* a faulty limiter: its key lacks the device id, so the request counts in the
\* window of every device
HeartbeatHandler_SharedLimiter(device_id, wire_ts, screen_on, foreground_app, signature) ==
    /\ Len(tasks) < MaxTasks
    /\ rl[device_id].count < MaxRlCount
    /\ IF ~redisUp
       THEN /\ last' = Obs("heartbeat", device_id, 500, "heartbeat processing failed",
                           [timestamp |-> wire_ts, screen_on |-> screen_on,
                            foreground_app |-> foreground_app],
                           signature, NoBody, NoSecret)
            /\ UNCHANGED <<devices, hbz, tasks, rl, rlPassed>>
       ELSE LET Key(d) == IF FirstInWindow(RedisIncr(rl[d]).count)
                          THEN RedisExpire(RedisIncr(rl[d]), HEARTBEAT_RATE_WINDOW_SECONDS)
                          ELSE RedisIncr(rl[d])
                count == RedisIncr(rl[device_id]).count
            IN  /\ rl' = [d \in DeviceIds |-> Key(d)]
                /\ rlPassed' = [rlPassed EXCEPT ![device_id] =
                                    IF RateLimited(count) THEN @ ELSE @ + 1]
                /\ HeartbeatBody(device_id, wire_ts, screen_on, foreground_app,
                                 signature, RateLimited(count))
    /\ running
    /\ UNCHANGED <<srvVars, secretCtr, issued, pairing, req, blockVars>>

\* a heartbeat handled without interleaving: INCR, EXPIRE when first, the rest
HeartbeatHandler(device_id, wire_ts, screen_on, foreground_app, signature) ==
    /\ Len(tasks) < MaxTasks
    /\ rl[device_id].count < MaxRlCount
    /\ IF ~redisUp
       THEN /\ last' = Obs("heartbeat", device_id, 500, "heartbeat processing failed",
                           [timestamp |-> wire_ts, screen_on |-> screen_on,
                            foreground_app |-> foreground_app],
                           signature, NoBody, NoSecret)
            /\ UNCHANGED <<devices, hbz, tasks, rl, rlPassed>>
       ELSE LET incr == RedisIncr(rl[device_id])
                count == incr.count
                key == IF FirstInWindow(count)
                       THEN RedisExpire(incr, HEARTBEAT_RATE_WINDOW_SECONDS)
                       ELSE incr
            IN  /\ rl' = [rl EXCEPT ![device_id] = key]
                /\ rlPassed' = [rlPassed EXCEPT ![device_id] =
                                    IF RateLimited(count) THEN @ ELSE @ + 1]
                /\ HeartbeatBody(device_id, wire_ts, screen_on, foreground_app,
                                 signature, RateLimited(count))
    /\ running
    /\ UNCHANGED <<srvVars, secretCtr, issued, pairing, req, blockVars>>

\* a heartbeat from a client outside the model's outboxes
Heartbeat(device_id, wire_ts, screen_on, foreground_app, signature) ==
    /\ HeartbeatHandler(device_id, wire_ts, screen_on, foreground_app, signature)
    /\ UNCHANGED outbox

(***************************************************************************)
(* The same handler, one Redis command at a time, for concurrent requests. *)
(* A handler slot holds what the handler knows between its commands: where *)
(* it is, the device, and the only thing it will still use of the count    *)
(* INCR returned to it, whether that count exceeds the limit.              *)
(***************************************************************************)
Handlers == {"h1", "h2"}

Idle == [pc |-> "idle", dev |-> "", limited |-> FALSE]

\* count = redis_client.incr(key)
HbIncr(h, device_id) ==
    /\ running
    /\ req[h].pc = "idle"
    /\ rl[device_id].count < MaxRlCount
    /\ IF ~redisUp
       THEN /\ last' = Note("heartbeat", device_id, 500, "heartbeat processing failed")
            /\ UNCHANGED <<rl, rlPassed, req>>
       ELSE LET incr == RedisIncr(rl[device_id])
                count == incr.count
            IN  /\ rl' = [rl EXCEPT ![device_id] = incr]
                /\ req' = [req EXCEPT ![h] =
                              [pc |-> IF FirstInWindow(count) THEN "expire" ELSE "respond",
                               dev |-> device_id, limited |-> RateLimited(count)]]
                /\ rlPassed' = [rlPassed EXCEPT ![device_id] =
                                    IF FirstInWindow(count) \/ RateLimited(count)
                                    THEN @ ELSE @ + 1]
                /\ last' = Note("incr", device_id, 0, "")
    /\ UNCHANGED <<envVars, authVars, hbz, tasks, blockVars>>

\* if count == 1: redis_client.expire(key, HEARTBEAT_RATE_WINDOW_SECONDS);
\* a Redis error here leaves the handler through `except Exception` (500)
HbExpire(h) ==
    LET device_id == req[h].dev IN
    /\ running
    /\ req[h].pc = "expire"
    /\ IF ~redisUp
       THEN /\ req' = [req EXCEPT ![h] = Idle]
            /\ last' = Note("heartbeat", device_id, 500, "heartbeat processing failed")
            /\ UNCHANGED <<rl, rlPassed>>
       ELSE /\ rl' = [rl EXCEPT ![device_id] =
                         RedisExpire(@, HEARTBEAT_RATE_WINDOW_SECONDS)]
            /\ req' = [req EXCEPT ![h].pc = "respond"]
            /\ rlPassed' = [rlPassed EXCEPT ![device_id] =
                                IF req[h].limited THEN @ ELSE @ + 1]
            /\ last' = Note("expire", device_id, 0, "")
    /\ UNCHANGED <<envVars, authVars, hbz, tasks, blockVars>>

\* the rest of the handler, from the limiter's verdict to the response
HbRespond(h, wire_ts, screen_on, foreground_app, signature) ==
    /\ running
    /\ req[h].pc = "respond"
    /\ Len(tasks) < MaxTasks
    /\ HeartbeatBody(req[h].dev, wire_ts, screen_on, foreground_app, signature,
                     req[h].limited)
    /\ req' = [req EXCEPT ![h] = Idle]
    /\ UNCHANGED <<envVars, secretCtr, issued, pairing, rl, rlPassed, blockVars>>

(***************************************************************************)
(* Environment: time passes (Redis drops the keys whose expiry is         *)
(* reached), Redis goes away and comes back, the hosts file becomes        *)
(* read-only and writable again.                                           *)
(***************************************************************************)
Tick(dt, until) ==
    /\ now + dt <= until
    /\ now' = now + dt
    /\ rl' = [d \in DeviceIds |-> RlAt(rl[d], now + dt)]
    /\ rlPassed' = [d \in DeviceIds |->
                       IF RlAt(rl[d], now + dt) = rl[d] THEN rlPassed[d] ELSE 0]
    /\ hbz' = [d \in DeviceIds |-> ZAt(hbz[d], now + dt)]
    /\ last' = Note("tick", "", 0, "")
    /\ UNCHANGED <<tzOffset, schedReal, redisUp, hostsWritable, outbox, authVars, req, tasks,
                   blockVars>>

RedisFlip ==
    /\ redisUp' = ~redisUp
    /\ last' = Note("redis", "", 0, "")
    /\ UNCHANGED <<now, tzOffset, schedReal, hostsWritable, outbox, authVars, rateVars, hbz, tasks,
                   blockVars>>

HostsFlip ==
    /\ hostsWritable' = ~hostsWritable
    /\ last' = Note("chmod", "", 0, "")
    /\ UNCHANGED <<now, tzOffset, schedReal, redisUp, outbox, authVars, rateVars, hbz, tasks, blockVars>>

(***************************************************************************)
(* Configuration lists.                                                    *)
(***************************************************************************)
\* api/phone.py; "instagram" is listed twice there
DISTRACTING_KEYWORDS ==
    {<<"y","o","u","t","u","b","e">>,
     <<"t","i","k","t","o","k">>,
     <<"s","h","o","r","t","s">>,
     <<"i","n","s","t","a","g","r","a","m">>,
     <<"r","e","d","d","i","t">>,
     <<"f","a","c","e","b","o","o","k">>,
     <<"n","e","t","f","l","i","x">>,
     <<"h","u","l","u">>,
     <<"d","i","s","n","e","y","p","l","u","s">>,
     <<"t","w","i","t","t","e","r">>,
     <<"x">>,
     <<"l","i","n","k","e","d","i","n">>,
     <<"d","i","s","c","o","r","d">>}

DISTRACTION_THRESHOLD == 3

BLOCK_DOMAINS_DEFAULT ==
    <<"youtube.com",
      "m.youtube.com",
      "tiktok.com",
      "www.reddit.com",
      "x.com",
      "twitter.com",
      "www.instagram.com",
      "instagram.com",
      "facebook.com",
      "www.facebook.com",
      "m.facebook.com",
      "www.linkedin.com",
      "linkedin.com",
      "netflix.com",
      "www.netflix.com",
      "www.hulu.com",
      "hulu.com",
      "www.disneyplus.com",
      "disneyplus.com">>

\* blocker/config.py
BLOCK_LIST == <<"youtube.com", "tiktok.com", "instagram.com">>

\* monitor/noise_detector.py
DISTRACTION_KEYWORDS ==
    {<<"y","o","u","t","u","b","e">>,
     <<"s","h","o","r","t","s">>,
     <<"t","i","k","t","o","k">>,
     <<"i","n","s","t","a","g","r","a","m">>,
     <<"f","a","c","e","b","o","o","k">>,
     <<"r","e","d","d","i","t">>,
     <<"x",".","c","o","m">>}

BrowserNames ==
    {<<"c","h","r","o","m","e">>,
     <<"f","i","r","e","f","o","x">>,
     <<"e","d","g","e">>,
     <<"b","r","a","v","e">>}

(***************************************************************************)
(* The hosts file: its lines in order, and whether the last line ends with *)
(* a newline.  A line is [text, dom]: `text` is what the line holds that   *)
(* the blocker did not write ("" if nothing), `dom` the domain of a        *)
(* "127.0.0.1 <dom> # PGUARD_BLOCK" entry in it ("" if none).              *)
(***************************************************************************)
Entry(d) == [text |-> "", dom |-> d]

\* BLOCK_MARK in line
HasMark(line) == line.dom # ""

\* open(HOSTS_PATH, "a"); f.write(f"127.0.0.1 {d} {BLOCK_MARK}\n") for each domain:
\* the first write continues the last line when that line has no newline
block_domains(h, domains) ==
    IF domains = <<>> THEN h
    ELSE IF h.lines # <<>> /\ ~h.eol
    THEN LET n == Len(h.lines)
             joined == [text |-> h.lines[n].text, dom |-> domains[1]]
         IN  [lines |-> SubSeq(h.lines, 1, n - 1) \o <<joined>> \o
                        [i \in 1..(Len(domains) - 1) |-> Entry(domains[i + 1])],
              eol |-> TRUE]
    ELSE [lines |-> h.lines \o [i \in 1..Len(domains) |-> Entry(domains[i])],
          eol |-> TRUE]

\* read every line, keep those without BLOCK_MARK, rewrite the file
unblock_all(h) ==
    LET kept == SelectSeq(h.lines, LAMBDA line : ~HasMark(line))
        n == Len(h.lines)
    IN  [lines |-> kept,
         eol |-> IF n > 0 /\ ~HasMark(h.lines[n]) THEN h.eol ELSE TRUE]

(***************************************************************************)
(* blocker/backup_helper.py.  A backup is named by the local time, to the  *)
(* second; a second backup in the same second overwrites the first.        *)
(***************************************************************************)
\* datetime.now(), formatted %Y%m%d_%H%M%S
LocalNow == now + tzOffset

backup_hosts(dir, h) ==
    {b \in dir : b.name # LocalNow} \cup {[name |-> LocalNow, content |-> h]}

\* sorted(BACKUP_DIR.glob("hosts_*.bak"), reverse=True)[0], copied over the hosts file
restore_latest_backup(dir, h) ==
    IF dir = {} THEN h
    ELSE (CHOOSE b \in dir : \A c \in dir : c.name <= b.name).content

(***************************************************************************)
(* evaluate_device_state                                                   *)
(***************************************************************************)
IsDistracting(e) == \E kw \in DISTRACTING_KEYWORDS : Contains(e.foreground_app, kw)

DistractCount(entries) == Cardinality({e \in entries : IsDistracting(e)})

ScreenOnCount(entries) == Cardinality({e \in entries : e.screen_on})

\* Event.timestamp >= utcnow() - 2 minutes, newest first, limit 20.  The table
\* is in timestamp order (one writer, one row per sample), so the newest rows
\* are the last ones.
RecentPc ==
    LET inWindow == SelectSeq(events, LAMBDA e : e.timestamp >= UtcNow.wall - PC_WINDOW_SECONDS)
        n == Len(inWindow)
    IN  IF n <= PC_EVENT_LIMIT THEN inWindow
        ELSE SubSeq(inWindow, n - PC_EVENT_LIMIT + 1, n)

PcProdCount(recent_pc) == Cardinality({i \in 1..Len(recent_pc) : recent_pc[i].productive})

Max(a, b) == IF a >= b THEN a ELSE b

\* a faulty ratio: an empty window counts as productive
PcIsProductive_IdleCounts(recent_pc) ==
    Len(recent_pc) = 0 \/ PcProdCount(recent_pc) * 10 >= 7 * Len(recent_pc)

\* a faulty comparison: a ratio of exactly 0.7 does not count
PcIsProductive_Strict(recent_pc) ==
    PcProdCount(recent_pc) * 10 > 7 * Max(1, Len(recent_pc))

\* (pc_prod_count / pc_total) >= 0.7, with pc_total = max(1, len(recent_pc))
PcIsProductive(recent_pc) ==
    PcProdCount(recent_pc) * 10 >= 7 * Max(1, Len(recent_pc))

ShouldBlock(entries, recent_pc) ==
    /\ PcIsProductive(recent_pc)
    /\ DistractCount(entries) >= DISTRACTION_THRESHOLD
    /\ ScreenOnCount(entries) >= SCREEN_ON_THRESHOLD

\* datetime.combine(utcnow().date(), datetime.max.time()), to the second
EndOfDay(wall) == (wall \div SECONDS_PER_DAY) * SECONDS_PER_DAY + (SECONDS_PER_DAY - 1)

RemoveAt(seq, i) == SubSeq(seq, 1, i - 1) \o SubSeq(seq, i + 1, Len(seq))

\* one queued evaluation runs (the i-th of the queue)
Evaluate(i) ==
    LET device_id == tasks[i] IN
    /\ running
    /\ i \in 1..Len(tasks)
    /\ tasks' = RemoveAt(tasks, i)
    /\ IF ~redisUp
       THEN \* load_recent_heartbeats raises before the try block
            /\ last' = Note("evaluate", device_id, 500, "redis")
            /\ UNCHANGED <<records, applied, jobs, hosts>>
       ELSE IF ShouldBlock(LoadRecentHeartbeats(device_id), RecentPc)
       THEN LET expires_at == EndOfDay(UtcNow.wall)
                br == [created_at |-> UtcNow.wall, expires_at |-> expires_at,
                       domains |-> BLOCK_DOMAINS_DEFAULT, active |-> TRUE,
                       reason |-> device_id]
                id == Len(records) + 1
            IN  /\ Len(records) < MaxRecords
                /\ Len(hosts.lines) + Len(BLOCK_DOMAINS_DEFAULT) <= MaxHostsLines
                /\ records' = Append(records, br)
                /\ hosts' = IF hostsWritable
                            THEN block_domains(hosts, BLOCK_DOMAINS_DEFAULT)
                            ELSE hosts           \* "Block apply failed", logged
                /\ applied' = IF hostsWritable THEN applied \cup {id} ELSE applied
                /\ jobs' = IF schedReal
                           THEN jobs \cup {[id |-> id, run_date |-> expires_at]}
                           ELSE jobs             \* the substitute's add_job: return None
                /\ last' = Note("evaluate", device_id, 0, "blocked")
       ELSE /\ last' = Note("evaluate", device_id, 0, "no block")
            /\ UNCHANGED <<records, applied, jobs, hosts>>
    /\ UNCHANGED <<envVars, authVars, rateVars, hbz, events, hosts0, unb, backups,
                   monitor>>
    /\ UNCHANGED running

(***************************************************************************)
(* GET /phone/summary                                                      *)
(***************************************************************************)
Summary(device_id, minutes) ==
    /\ running
    /\ IF ~redisUp
       THEN last' = Note("summary", device_id, 500, "Internal Server Error")
       ELSE LET loaded == LoadRecentHeartbeats(device_id)
                cutoff_ts == Timestamp(UtcNow) - minutes * 60
                entries == {e \in loaded : e.ts >= cutoff_ts}
                since == UtcNow.wall - minutes * 60
                pc_events == SelectSeq(events, LAMBDA e : e.timestamp >= since)
                pc_signal == PcProdCount(pc_events)
            IN  last' = [Note("summary", device_id, 200, "ok") EXCEPT
                            !.arg = [minutes |-> minutes,
                                     series |-> entries,
                                     screen_on |-> ScreenOnCount(entries),
                                     distract |-> DistractCount(entries),
                                     signal |-> pc_signal,
                                     noise |-> Len(pc_events) - pc_signal]]
    /\ UNCHANGED <<envVars, authVars, rateVars, hbz, tasks, blockVars>>

(***************************************************************************)
(* scheduled_unblock                                                       *)
(***************************************************************************)
\* a faulty scheduled_unblock: it deletes the record instead of deactivating it
ScheduledUnblockBody_DeletesRecord(block_record_id) ==
    IF block_record_id \notin 1..Len(records) \/ ~records[block_record_id].active
    THEN /\ last' = Note("scheduled_unblock", "", block_record_id, "return")
         /\ UNCHANGED <<records, hosts>>
    ELSE /\ hosts' = IF hostsWritable THEN unblock_all(hosts) ELSE hosts
         /\ records' = RemoveAt(records, block_record_id)
         /\ last' = Note("scheduled_unblock", "", block_record_id, "deactivated")

\* a faulty scheduled_unblock: it does not return early on an inactive record
ScheduledUnblockBody_NoActiveCheck(block_record_id) ==
    /\ hosts' = IF hostsWritable THEN unblock_all(hosts) ELSE hosts
    /\ records' = [records EXCEPT ![block_record_id].active = FALSE]
    /\ last' = Note("scheduled_unblock", "", block_record_id, "deactivated")

ScheduledUnblockBody(block_record_id) ==
    IF block_record_id \notin 1..Len(records) \/ ~records[block_record_id].active
    THEN /\ last' = Note("scheduled_unblock", "", block_record_id, "return")
         /\ UNCHANGED <<records, hosts>>
    ELSE /\ hosts' = IF hostsWritable THEN unblock_all(hosts)
                     ELSE hosts                  \* "Unblock failed", logged
         /\ records' = [records EXCEPT ![block_record_id].active = FALSE]
         /\ last' = Note("scheduled_unblock", "", block_record_id, "deactivated")

\* the scheduler reads a naive run_date in the local timezone
JobDue(job) == now > Timestamp([wall |-> job.run_date, aware |-> FALSE])

\* the date trigger fires: the job runs once and is gone
JobFires(job) ==
    /\ running
    /\ job \in jobs
    /\ JobDue(job)
    /\ jobs' = jobs \ {job}
    /\ ScheduledUnblockBody(job.id)
    /\ UNCHANGED <<envVars, authVars, rateVars, hbz, tasks, events, applied, hosts0, unb,
                   backups, monitor, running>>

(***************************************************************************)
(* The same callback with unblock_all in its two file operations: the read *)
(* loop (open "r") and the rewrite (open "w", writelines).  Nothing holds  *)
(* a lock between them.                                                    *)
(***************************************************************************)
NoUnblock == [pc |-> "idle", id |-> 0, content |-> [lines |-> <<>>, eol |-> TRUE],
              seen |-> 0]

\* the date trigger fires for an active record; unblock_all has read the file
SchedUnblockRead(job) ==
    /\ running
    /\ job \in jobs
    /\ JobDue(job)
    /\ unb.pc = "idle"
    /\ job.id \in 1..Len(records)
    /\ records[job.id].active
    /\ jobs' = jobs \ {job}
    /\ unb' = [pc |-> "read", id |-> job.id, content |-> unblock_all(hosts),
               seen |-> Len(hosts.lines)]
    /\ last' = Note("unblock_read", "", job.id, "")
    /\ UNCHANGED <<envVars, authVars, rateVars, hbz, tasks, events, records, applied,
                   hosts, hosts0, backups, monitor, running>>

\* unblock_all rewrites the file with the lines it kept; the record is deactivated
SchedUnblockWrite ==
    /\ running
    /\ unb.pc = "read"
    /\ hosts' = IF hostsWritable THEN unb.content
                ELSE hosts                       \* "Unblock failed", logged
    /\ records' = [records EXCEPT ![unb.id].active = FALSE]
    /\ unb' = NoUnblock
    /\ last' = Note("scheduled_unblock", "", unb.id, "deactivated")
    /\ UNCHANGED <<envVars, authVars, rateVars, hbz, tasks, events, applied, jobs,
                   hosts0, backups, monitor, running>>

\* scheduled_unblock invoked again for a record whose job has already run
ScheduledUnblockAgain(block_record_id) ==
    /\ running
    /\ block_record_id \in 1..Len(records)
    /\ \A job \in jobs : job.id # block_record_id
    /\ ScheduledUnblockBody(block_record_id)
    /\ UNCHANGED <<envVars, authVars, rateVars, hbz, tasks, events, applied, jobs,
                   hosts0, unb, backups, monitor, running>>

(***************************************************************************)
(* blocker/manual_unblock.py: POST /blocker/manual_unblock, /manual_block  *)
(***************************************************************************)
\* a faulty manual_unblock: it restores the newest snapshot and stops there
ManualUnblock_RestoreOnly ==
    /\ running
    /\ backups' = backup_hosts(backups, hosts)
    /\ IF hostsWritable
       THEN /\ hosts' = restore_latest_backup(backup_hosts(backups, hosts), hosts)
            /\ last' = Note("manual_unblock", "", 200, "success")
       ELSE /\ hosts' = hosts
            /\ last' = Note("manual_unblock", "", 500, "error")
    /\ UNCHANGED <<envVars, authVars, rateVars, hbz, tasks, events, records, applied,
                   jobs, hosts0, unb, monitor, running>>

ManualUnblock ==
    /\ running
    /\ backups' = backup_hosts(backups, hosts)
    /\ IF hostsWritable
       THEN /\ hosts' = unblock_all(restore_latest_backup(backup_hosts(backups, hosts),
                                                         hosts))
            /\ last' = Note("manual_unblock", "", 200, "success")
       ELSE /\ hosts' = hosts
            /\ last' = Note("manual_unblock", "", 500, "error")
    /\ UNCHANGED <<envVars, authVars, rateVars, hbz, tasks, events, records, applied,
                   jobs, hosts0, unb, monitor, running>>

ManualBlock ==
    /\ running
    /\ Len(hosts.lines) + Len(BLOCK_LIST) <= MaxHostsLines
    /\ backups' = backup_hosts(backups, hosts)
    /\ IF hostsWritable
       THEN /\ hosts' = block_domains(hosts, BLOCK_LIST)
            /\ last' = Note("manual_block", "", 200, "success")
       ELSE /\ hosts' = hosts
            /\ last' = Note("manual_block", "", 500, "error")
    /\ UNCHANGED <<envVars, authVars, rateVars, hbz, tasks, events, records, applied,
                   jobs, hosts0, unb, monitor, running>>

(***************************************************************************)
(* monitor/noise_detector.py                                               *)
(***************************************************************************)
\* check_for_noise on one (title, app) sample
check_for_noise(sample) ==
    LET title_l == Lower(sample.title)
        app_l == Lower(sample.app)
        browser_like == \E a \in BrowserNames : Contains(app_l, a)
    IN  browser_like /\ \E k \in DISTRACTION_KEYWORDS : Contains(title_l, k)

\* now.hour == 23 and now.minute >= 59
DailyCutoff(wall) ==
    /\ (wall % SECONDS_PER_DAY) \div 3600 = 23
    /\ (wall % 3600) \div 60 >= 59

\* a faulty iteration: a failed screenshot or a failed direct block on a noise
\* sample aborts the iteration before its Event is written
MonitorStep_AbortsOnFailure(sample, shot_ok) ==
    LET is_noise == check_for_noise(sample)
        failed == is_noise /\ ~(shot_ok /\ hostsWritable)
        blocked == IF is_noise /\ ~failed THEN block_domains(hosts, BLOCK_LIST) ELSE hosts
        ev == [timestamp |-> UtcNow.wall, productive |-> ~is_noise]
    IN  /\ running
        /\ monitor.alive
        /\ now >= monitor.next
        /\ Len(events) < MaxEvents
        /\ is_noise => Len(hosts.lines) + Len(BLOCK_LIST) <= MaxHostsLines
        /\ events' = IF failed THEN events ELSE Append(events, ev)
        /\ hosts' = IF DailyCutoff(UtcNow.wall) /\ hostsWritable
                    THEN unblock_all(blocked) ELSE blocked
        /\ monitor' = [monitor EXCEPT !.alive = ~DailyCutoff(UtcNow.wall) \/ hostsWritable,
                                      !.next = now + monitor.interval]
        /\ last' = Note("monitor", "", 0, IF is_noise THEN "noise" ELSE "signal")
        /\ UNCHANGED <<envVars, authVars, rateVars, hbz, tasks, records, applied, jobs,
                       hosts0, unb, backups, running>>

\* one iteration of background_monitor_and_block; shot_ok: take_screenshot returns
MonitorStep(sample, shot_ok) ==
    LET is_noise == check_for_noise(sample)
        blocked == IF is_noise /\ shot_ok /\ hostsWritable
                   THEN block_domains(hosts, BLOCK_LIST)
                   ELSE hosts                    \* except Exception: pass
        ev == [timestamp |-> UtcNow.wall, productive |-> ~is_noise]
    IN  /\ running
        /\ monitor.alive
        /\ now >= monitor.next
        /\ Len(events) < MaxEvents
        /\ is_noise => Len(hosts.lines) + Len(BLOCK_LIST) <= MaxHostsLines
        /\ events' = Append(events, ev)
        /\ IF DailyCutoff(UtcNow.wall)
           THEN IF hostsWritable
                THEN /\ hosts' = unblock_all(blocked)
                     /\ monitor' = [monitor EXCEPT !.next = now + monitor.interval]
                ELSE \* unblock_all raises outside any try: the thread ends
                     /\ hosts' = blocked
                     /\ monitor' = [monitor EXCEPT !.alive = FALSE]
           ELSE /\ hosts' = blocked
                /\ monitor' = [monitor EXCEPT !.next = now + monitor.interval]
        /\ last' = Note("monitor", "", 0, IF is_noise THEN "noise" ELSE "signal")
        /\ UNCHANGED <<envVars, authVars, rateVars, hbz, tasks, records, applied, jobs,
                       hosts0, unb, backups, running>>

(***************************************************************************)
(* api/server.py lifespan: the shutdown half (startup is the initial state)*)
(***************************************************************************)
Shutdown ==
    /\ running
    /\ running' = FALSE
    /\ hosts' = IF hostsWritable THEN restore_latest_backup(backups, hosts) ELSE hosts
    /\ last' = Note("shutdown", "", 0, "")
    /\ UNCHANGED <<envVars, authVars, rateVars, hbz, tasks, events, records, applied,
                   jobs, hosts0, unb, backups, monitor>>

(***************************************************************************)
(* Initial states.  The process has started: lifespan has taken its        *)
(* backup of the hosts file and started the monitor thread.                *)
(***************************************************************************)
\* a Device row that exists without having been paired (paired defaults to False)
LegacyRow == [exists |-> TRUE, name |-> "legacy", paired |-> FALSE,
              secret |-> NoSecret, last_seen |-> 0]

Line(t) == [text |-> t, dom |-> ""]

CleanHosts == [lines |-> <<Line("127.0.0.1 localhost"), Line("::1 localhost")>>,
               eol |-> TRUE]

InitEnvWith(scheduler) ==
    /\ now = StartTime
    /\ redisUp = TRUE
    /\ hostsWritable = TRUE
    /\ schedReal = scheduler
    /\ outbox = NoOutbox
    /\ running = TRUE
    /\ last = Note("start", "", 0, "")

InitEnv == InitEnvWith(TRUE)

InitAuthEmpty ==
    /\ secretCtr = 0
    /\ issued = [d \in DeviceIds |-> <<>>]
    /\ pairing = NoPairing

InitRateEmpty ==
    /\ rl = [d \in DeviceIds |-> NoKey]
    /\ rlPassed = [d \in DeviceIds |-> 0]
    /\ req = [h \in Handlers |-> Idle]

InitBlock(table) ==
    /\ events = table
    /\ records = <<>>
    /\ applied = {}
    /\ jobs = {}
    /\ hosts0 = hosts
    /\ backups = {[name |-> LocalNow, content |-> hosts]}
    /\ monitor = [alive |-> TRUE, next |-> now, interval |-> MONITOR_INTERVAL]
    /\ unb = NoUnblock

InitBlockEmpty == InitBlock(<<>>)

(***************************************************************************)
(* SpecAuth: pairing and heartbeat authentication.                         *)
(***************************************************************************)
WireNow(zone) == [wall |-> now, zone |-> zone]

\* what a client may put in the signature field for the report it sends: nothing,
\* or an HMAC under any key, over the server's canonical form, over the
\* timestamp text as sent, or over a report with another screen_on
Signatures(device_id, wire_ts, screen_on, foreground_app) ==
    {NoSig} \cup
    {HmacSha256(k, body) :
        k \in 0..MaxSecrets,
        body \in {CanonicalPayload(device_id, IsoFormat(ParseDatetime(wire_ts)),
                                   screen_on, foreground_app),
                  CanonicalPayload(device_id, wire_ts, screen_on, foreground_app),
                  CanonicalPayload(device_id, IsoFormat(ParseDatetime(wire_ts)),
                                   ~screen_on, foreground_app)}}

\* device d1 is two requests short of the cap in its current window
NearCap == [count |-> HEARTBEAT_RATE_LIMIT - 2,
            exp |-> StartTime + HEARTBEAT_RATE_WINDOW_SECONDS]

InitAuth ==
    /\ InitEnv
    /\ tzOffset = 0
    /\ devices \in [DeviceIds -> {NoRow, LegacyRow}]
    /\ InitAuthEmpty
    /\ rl = [d \in DeviceIds |-> IF d = "d1" THEN NearCap ELSE NoKey]
    /\ rlPassed = [d \in DeviceIds |-> rl[d].count]
    /\ req = [h \in Handlers |-> Idle]
    /\ hbz = [d \in DeviceIds |-> NoZSet]
    /\ tasks = <<>>
    /\ hosts = CleanHosts
    /\ InitBlockEmpty

NextAuth ==
    \/ \E d \in DeviceIds, n \in Names, t \in Tokens : Pair(d, n, t)
    \/ \E zone \in {"naive", "Z"} :
         \E sig \in Signatures("d1", WireNow(zone), TRUE, NoneApp) :
            Heartbeat("d1", WireNow(zone), TRUE, NoneApp, sig)
    \/ \E i \in 1..MaxTasks : Evaluate(i)

SpecAuth == InitAuth /\ [][NextAuth]_vars

(***************************************************************************)
(* SpecRate: the rate limiter under concurrent handlers, passing time and  *)
(* Redis outages.  The device is not paired, so a request the limiter lets *)
(* through is answered 403.                                                *)
(***************************************************************************)
InitRate ==
    /\ InitEnv
    /\ tzOffset = 0
    /\ devices = [d \in DeviceIds |-> NoRow]
    /\ InitAuthEmpty
    /\ InitRateEmpty
    /\ hbz = [d \in DeviceIds |-> NoZSet]
    /\ tasks = <<>>
    /\ hosts = CleanHosts
    /\ InitBlockEmpty

NextRate ==
    \/ \E h \in Handlers : HbIncr(h, "d1")
    \/ \E h \in Handlers : HbExpire(h)
    \/ \E h \in Handlers : HbRespond(h, WireNow("Z"), TRUE, NoneApp, NoSig)
    \/ Tick(HalfWindow, StartTime + MaxElapsed)
    \/ RedisFlip

SpecRate == InitRate /\ [][NextRate]_vars

(***************************************************************************)
(* Claims.                                                                 *)
(***************************************************************************)
\* the canonical bytes of the report observed in o: the four unsigned fields,
\* keys in sorted order, the timestamp as isoformat() renders the parsed value
ReportCanonical(o) ==
    << <<"device_id", o.dev>>,
       <<"foreground_app", o.arg.foreground_app>>,
       <<"screen_on", o.arg.screen_on>>,
       <<"timestamp", [wall |-> o.arg.timestamp.wall,
                       zone |-> IF o.arg.timestamp.zone = "naive"
                                THEN "naive" ELSE "+00:00"]>> >>

\* C1: a heartbeat is answered 200 only if the Device row exists, is paired, and
\* the submitted signature is the HMAC, under the row's current secret, of the
\* canonical serialization of the report; an unknown or unpaired device, a
\* missing signature and a wrong signature are all rejected.
C1_AcceptedOnlyIfAuthentic ==
    last.op = "heartbeat" =>
        LET row == devices[last.dev]
            authentic == /\ row.exists
                         /\ row.paired
                         /\ last.sig # <<>>
                         /\ last.sig = <<"hmac", row.secret, ReportCanonical(last)>>
        IN  /\ last.status = 200 => authentic
            /\ ~authentic => last.status \in {403, 429, 500}

C1_Witness ==
    /\ last.op = "heartbeat"
    /\ last.status = 200
    /\ last.arg.timestamp.zone = "Z"
    /\ Len(issued[last.dev]) = 2

\* the observed heartbeat is signed with a secret an earlier pairing of the
\* device issued
SignedWithStale(o) ==
    /\ o.op = "heartbeat"
    /\ Len(o.sig) = 3
    /\ \E i \in 1..(Len(issued[o.dev]) - 1) : issued[o.dev][i] = o.sig[2]

\* every successful pair stores and returns a secret no earlier pairing issued
PairReplacesSecret ==
    /\ (last.op = "pair" /\ last.status = 200) =>
          /\ devices[last.dev].secret = last.secret
          /\ \A d \in DeviceIds : \A i \in 1..Len(issued[d]) :
                issued[d][i] = last.secret => (d = last.dev /\ i = Len(issued[d]))
    /\ \A d \in DeviceIds :
          issued[d] # <<>> =>
             /\ devices[d].paired
             /\ devices[d].secret = issued[d][Len(issued[d])]

\* C2 (as stated): every successful pair replaces the stored secret, and a
\* heartbeat signed with a secret of an earlier pairing is answered 403.
C2_StaleAnswered403 ==
    /\ PairReplacesSecret
    /\ SignedWithStale(last) => last.status = 403

\* C2 (amended): every successful pair replaces the stored secret, and a
\* heartbeat signed with a secret of an earlier pairing is never accepted: it
\* is answered 403, unless the rate limiter answered first (429, the device's
\* counter being over the cap) or the handler failed (500).
C2_StaleNeverAccepted ==
    /\ PairReplacesSecret
    /\ SignedWithStale(last) =>
          /\ last.status \in {403, 429, 500}
          /\ last.status = 429 => rl[last.dev].count > 60
          /\ last.status = 500 => last.detail = "heartbeat processing failed"
          /\ last.status = 403 => last.detail = "invalid signature"

C2_Witness ==
    /\ SignedWithStale(last)
    /\ last.status = 403
    /\ last.sig = <<"hmac", issued[last.dev][1], last.body>>

\* the token presented in the observed pair request does not verify, or names
\* another device (or none)
BadToken(o) ==
    \/ o.arg.token.key # "server-key"
    \/ o.arg.token.expired
    \/ o.arg.token.device_id # o.dev

\* C3: a pair request with an invalid token, or with a token whose device_id
\* claim differs from the request's, is answered 403 and changes no Device row.
C3_BadTokenChangesNothing ==
    [][(last'.op = "pair" /\ BadToken(last')) =>
          (last'.status = 403 /\ devices' = devices)]_vars

C3_Witness ==
    /\ last.op = "pair"
    /\ last.status = 403
    /\ last.arg.token.key = "server-key"
    /\ ~last.arg.token.expired
    /\ last.arg.token.device_id # last.dev
    /\ devices[last.dev].paired
    /\ devices[last.dev].name # last.arg.name

(***************************************************************************)
(* SpecStore: the report store.  The server runs in UTC or in a timezone   *)
(* east of it; a paired device sends signed reports stamped with its clock *)
(* (now, or a report delayed by one step) as a UTC instant.                *)
(***************************************************************************)
PairedRow(secret) == [exists |-> TRUE, name |-> "pixel", paired |-> TRUE,
                      secret |-> secret, last_seen |-> StartTime]

\* the signature a correct client computes for its report
ClientSignature(secret, device_id, wire_ts, screen_on, foreground_app) ==
    HmacSha256(secret,
               CanonicalPayload(device_id, IsoFormat(ParseDatetime(wire_ts)),
                                screen_on, foreground_app))

InitPaired ==
    /\ devices = [d \in DeviceIds |-> IF d = "d1" THEN PairedRow(1) ELSE NoRow]
    /\ secretCtr = 1
    /\ issued = [d \in DeviceIds |-> IF d = "d1" THEN <<1>> ELSE <<>>]
    /\ pairing = NoPairing

InitStore ==
    /\ InitEnv
    /\ tzOffset \in {0, TzEast}
    /\ InitPaired
    /\ InitRateEmpty
    /\ hbz = [d \in DeviceIds |-> NoZSet]
    /\ tasks = <<>>
    /\ hosts = CleanHosts
    /\ InitBlockEmpty

NextStore ==
    \/ \E lag \in {0, StoreStep}, zone \in {"Z", "+00:00"} :
         LET wire_ts == [wall |-> now - lag, zone |-> zone] IN
         /\ rl["d1"].count < MaxBurst
         /\ Heartbeat("d1", wire_ts, TRUE, NoneApp,
                      ClientSignature(devices["d1"].secret, "d1", wire_ts, TRUE,
                                      NoneApp))
    \/ \E i \in 1..MaxTasks : Evaluate(i)
    \/ Summary("d1", 60)
    \/ Tick(StoreStep, StartTime + StoreElapsed)
    \/ RedisFlip

SpecStore == InitStore /\ [][NextStore]_vars

(***************************************************************************)
(* SpecPolicy: evaluate_device_state over stores and Event tables the      *)
(* program can have built up, in UTC or east of it.  The store of d1       *)
(* holds any of three earlier reports; the Event table holds one sample    *)
(* every MONITOR_INTERVAL seconds up to now, which is 24 samples in the    *)
(* two minutes the policy looks at, unless the monitor stopped earlier.    *)
(***************************************************************************)
YouTube == <<"Y","o","u","T","u","b","e">>
TikTok == <<"t","i","k","t","o","k">>
Docs == <<"D","o","c","s">>

StoredReport(age, screen_on, foreground_app) ==
    [ts |-> StartTime - age, screen_on |-> screen_on,
     foreground_app |-> AppLabel(<<foreground_app>>)]

EarlierReports == {StoredReport(30, TRUE, YouTube), StoredReport(20, FALSE, TikTok),
                   StoredReport(10, TRUE, Docs)}

\* n samples of which the first p are productive
Samples(p, n) == [i \in 1..n |-> i <= p]

\* the Event rows of the samples `flags`, the last one taken `age` seconds
\* before StartTime (the monitor thread can have ended)
History(flags, age) ==
    [i \in 1..Len(flags) |->
        [timestamp |-> StartTime - age - (Len(flags) - i) * MONITOR_INTERVAL,
         productive |-> flags[i]]]

Histories ==
    {History(<<>>, 0),
     History(Samples(7, 10), 0),
     History(Samples(6, 10), 0),
     History(Samples(7, 10), 80),
     History(Samples(0, 1) \o Samples(14, 20), 0),
     History(Samples(4, 4) \o Samples(13, 20), 0),
     History(Samples(2, 2), PC_WINDOW_SECONDS + 10)}

InitPolicy ==
    /\ InitEnv
    /\ tzOffset \in {0, TzEast}
    /\ InitPaired
    /\ InitRateEmpty
    /\ hbz \in {[d \in DeviceIds |->
                    IF d = "d1" /\ set # {}
                    THEN [set |-> set, exp |-> StartTime + 2 * HEARTBEAT_WINDOW_SECONDS - 10]
                    ELSE NoZSet] : set \in SUBSET EarlierReports}
    /\ tasks = <<>>
    /\ hosts = CleanHosts
    /\ \E table \in Histories : InitBlock(table)

NextPolicy ==
    \/ \E screen_on \in BOOLEAN, app \in {YouTube, Docs} :
         LET wire_ts == WireNow("Z") IN
         /\ rl["d1"].count < MaxBurst
         /\ Heartbeat("d1", wire_ts, screen_on, <<app>>,
                      ClientSignature(devices["d1"].secret, "d1", wire_ts, screen_on,
                                      <<app>>))
    \/ \E i \in 1..MaxTasks : Evaluate(i)
    \/ RedisFlip
    \/ HostsFlip

SpecPolicy == InitPolicy /\ [][NextPolicy]_vars

(***************************************************************************)
(* SpecBlock: the rule list and its writers.  The server runs in UTC, one  *)
(* minute before midnight.   Device d1 has sent three distracting reports  *)
(* with the screen on, the last one just now: its evaluation is queued.    *)
(* The hosts file ends with a newline or, as an editor may leave it,       *)
(* without one.  The operator and the monitor add the short BLOCK_LIST     *)
(* only while none of its domains is in the rule list.                     *)
(***************************************************************************)
NoEolHosts == [CleanHosts EXCEPT !.eol = FALSE]

\* what get_active_window_title_and_app returns
NoiseSample == [title |-> <<"Y","o","u","T","u","b","e">>,
                app |-> <<"c","h","r","o","m","e",".","e","x","e">>]
SignalSample == [title |-> <<"m","a","i","n",".","p","y">>,
                 app |-> <<"C","o","d","e",".","e","x","e">>]

\* the rule list holds an entry for a domain of BLOCK_LIST
ShortListBlocked ==
    \E i \in 1..Len(hosts.lines), j \in 1..Len(BLOCK_LIST) :
        hosts.lines[i].dom = BLOCK_LIST[j]

InitBlocking ==
    /\ InitEnv
    /\ tzOffset = 0
    /\ InitPaired
    /\ rl = [d \in DeviceIds |->
                IF d = "d1"
                THEN [count |-> 3, exp |-> StartTime + HEARTBEAT_RATE_WINDOW_SECONDS - 30]
                ELSE NoKey]
    /\ rlPassed = [d \in DeviceIds |-> rl[d].count]
    /\ req = [h \in Handlers |-> Idle]
    /\ hbz = [d \in DeviceIds |->
                 IF d = "d1"
                 THEN [set |-> {StoredReport(30, TRUE, YouTube),
                                StoredReport(20, TRUE, TikTok),
                                StoredReport(0, TRUE, YouTube)},
                       exp |-> StartTime + 2 * HEARTBEAT_WINDOW_SECONDS]
                 ELSE NoZSet]
    /\ tasks = <<"d1">>
    /\ hosts \in {CleanHosts, NoEolHosts}
    /\ InitBlock(History(Samples(2, 2), 0))

NextBlock ==
    \/ \E i \in 1..MaxTasks : Evaluate(i)
    \/ \E job \in jobs : JobFires(job)
    \/ \E id \in 1..MaxRecords : ScheduledUnblockAgain(id)
    \/ ManualUnblock
    \/ ~ShortListBlocked /\ ManualBlock
    \/ \E sample \in {NoiseSample, SignalSample}, shot_ok \in BOOLEAN :
         /\ check_for_noise(sample) => ~ShortListBlocked
         /\ MonitorStep(sample, shot_ok)
    \/ Shutdown
    \/ HostsFlip
    \/ Tick(HEARTBEAT_RATE_WINDOW_SECONDS, StartTime + BlockElapsed)

SpecBlock == InitBlocking /\ [][NextBlock]_vars

(***************************************************************************)
(* SpecRace: SpecBlock's initial states, with the scheduled reversal       *)
(* running unblock_all as a read and a rewrite while the policy, the       *)
(* operator and the monitor append to the hosts file.                      *)
(***************************************************************************)
NextRace ==
    \/ \E i \in 1..MaxTasks : Evaluate(i)
    \/ \E job \in jobs : SchedUnblockRead(job)
    \/ SchedUnblockWrite
    \/ ~ShortListBlocked /\ ManualBlock
    \/ \E sample \in {NoiseSample, SignalSample} :
         /\ check_for_noise(sample) => ~ShortListBlocked
         /\ MonitorStep(sample, TRUE)
    \/ HostsFlip
    \/ Tick(HEARTBEAT_RATE_WINDOW_SECONDS, StartTime + BlockElapsed)

SpecRace == InitBlocking /\ [][NextRace]_vars

(***************************************************************************)
(* SpecLive: SpecBlock's initial states with either scheduler class, and   *)
(* fairness for what the threads of the process keep doing: the clock      *)
(* advances, a queued evaluation runs, a due job fires.                    *)
(***************************************************************************)
InitLive ==
    /\ \E scheduler \in BOOLEAN : InitEnvWith(scheduler)
    /\ tzOffset = 0
    /\ InitPaired
    /\ rl = [d \in DeviceIds |-> NoKey]
    /\ rlPassed = [d \in DeviceIds |-> 0]
    /\ req = [h \in Handlers |-> Idle]
    /\ hbz = [d \in DeviceIds |->
                 IF d = "d1"
                 THEN [set |-> {StoredReport(30, TRUE, YouTube),
                                StoredReport(20, TRUE, TikTok),
                                StoredReport(0, TRUE, YouTube)},
                       exp |-> StartTime + 2 * HEARTBEAT_WINDOW_SECONDS]
                 ELSE NoZSet]
    /\ tasks = <<"d1">>
    /\ hosts \in {CleanHosts, NoEolHosts}
    /\ InitBlock(History(Samples(2, 2), 0))

TickLive == Tick(HEARTBEAT_RATE_WINDOW_SECONDS, StartTime + BlockElapsed)
EvaluateLive == \E i \in 1..MaxTasks : Evaluate(i)
JobFiresLive == \E job \in jobs : JobFires(job)

NextLive ==
    \/ EvaluateLive
    \/ JobFiresLive
    \/ TickLive
    \/ ManualUnblock
    \/ \E sample \in {NoiseSample, SignalSample} :
         /\ check_for_noise(sample) => ~ShortListBlocked
         /\ MonitorStep(sample, TRUE)
    \/ HostsFlip

SpecLive ==
    /\ InitLive
    /\ [][NextLive]_vars
    /\ WF_vars(TickLive)
    /\ WF_vars(EvaluateLive)
    /\ WF_vars(JobFiresLive)

(***************************************************************************)
(* SpecIngest: heartbeats of two devices next to the evaluations they      *)
(* queue, under outages of Redis and of the hosts file.  d1 is paired and  *)
(* its retained reports call for a block; d2 has no Device row and its     *)
(* window is one request short of the cap.                                 *)
(***************************************************************************)
InitIngest ==
    /\ InitEnv
    /\ tzOffset = 0
    /\ InitPaired
    /\ rl = [d \in DeviceIds |->
                IF d = "d2"
                THEN [count |-> HEARTBEAT_RATE_LIMIT - 1,
                      exp |-> StartTime + HEARTBEAT_RATE_WINDOW_SECONDS]
                ELSE NoKey]
    /\ rlPassed = [d \in DeviceIds |-> rl[d].count]
    /\ req = [h \in Handlers |-> Idle]
    /\ hbz = [d \in DeviceIds |->
                 IF d = "d1"
                 THEN [set |-> {StoredReport(30, TRUE, YouTube),
                                StoredReport(20, TRUE, TikTok),
                                StoredReport(10, TRUE, YouTube)},
                       exp |-> StartTime + 2 * HEARTBEAT_WINDOW_SECONDS]
                 ELSE NoZSet]
    /\ tasks = <<>>
    /\ hosts = CleanHosts
    /\ InitBlock(History(Samples(2, 2), 0))

NextIngest ==
    \/ \E signed \in BOOLEAN :
         LET wire_ts == WireNow("Z") IN
         /\ rl["d1"].count < MaxBurst
         /\ Heartbeat("d1", wire_ts, TRUE, <<YouTube>>,
                      IF signed
                      THEN ClientSignature(devices["d1"].secret, "d1", wire_ts, TRUE,
                                           <<YouTube>>)
                      ELSE NoSig)
    \/ Heartbeat("d2", WireNow("Z"), TRUE, NoneApp, NoSig)
    \/ \E i \in 1..MaxTasks : Evaluate(i)
    \/ RedisFlip
    \/ HostsFlip

SpecIngest == InitIngest /\ [][NextIngest]_vars

(***************************************************************************)
(* SpecIsolation: two paired devices side by side.  Both have reports      *)
(* retained; d2's rate window is one request short of the cap.  Either     *)
(* posts heartbeats, signed or not, while evaluations run and Redis goes   *)
(* away and comes back, all within one rate window.  No PC activity has    *)
(* been sampled, so no evaluation blocks.  The server runs in UTC.         *)
(***************************************************************************)
InitIsolation ==
    /\ InitEnv
    /\ tzOffset = 0
    /\ devices = [d \in DeviceIds |-> PairedRow(IF d = "d1" THEN 1 ELSE 2)]
    /\ secretCtr = 2
    /\ issued = [d \in DeviceIds |-> IF d = "d1" THEN <<1>> ELSE <<2>>]
    /\ pairing = NoPairing
    /\ rl = [d \in DeviceIds |->
                IF d = "d2"
                THEN [count |-> HEARTBEAT_RATE_LIMIT - 1,
                      exp |-> StartTime + HEARTBEAT_RATE_WINDOW_SECONDS]
                ELSE NoKey]
    /\ rlPassed = [d \in DeviceIds |-> rl[d].count]
    /\ req = [h \in Handlers |-> Idle]
    /\ hbz = [d \in DeviceIds |->
                 [set |-> IF d = "d1"
                          THEN {StoredReport(20, TRUE, YouTube),
                                StoredReport(10, TRUE, TikTok)}
                          ELSE {StoredReport(10, FALSE, Docs)},
                  exp |-> StartTime - 10 + 2 * HEARTBEAT_WINDOW_SECONDS]]
    /\ tasks = <<>>
    /\ hosts = CleanHosts
    /\ InitBlockEmpty

NextIsolation ==
    \/ \E d \in DeviceIds, signed \in BOOLEAN, app \in {YouTube, Docs} :
         LET wire_ts == WireNow("Z") IN
         /\ d = "d1" => rl[d].count < MaxBurst
         /\ Heartbeat(d, wire_ts, TRUE, <<app>>,
                      IF signed
                      THEN ClientSignature(devices[d].secret, d, wire_ts, TRUE, <<app>>)
                      ELSE NoSig)
    \/ \E i \in 1..MaxTasks : Evaluate(i)
    \/ RedisFlip

SpecIsolation == InitIsolation /\ [][NextIsolation]_vars

(***************************************************************************)
(* SpecPairing: pair requests handled concurrently.  d1 is unknown or has  *)
(* an unpaired row; two handlers pair devices, and d1 posts heartbeats     *)
(* signed with the secret of the pair response it received last.           *)
(***************************************************************************)
InitPairing ==
    /\ InitEnv
    /\ tzOffset = 0
    /\ \E row \in {NoRow, LegacyRow} :
          devices = [d \in DeviceIds |-> IF d = "d1" THEN row ELSE NoRow]
    /\ InitAuthEmpty
    /\ InitRateEmpty
    /\ hbz = [d \in DeviceIds |-> NoZSet]
    /\ tasks = <<>>
    /\ hosts = CleanHosts
    /\ InitBlockEmpty

LastIssued(d) == issued[d][Len(issued[d])]

NextPairing ==
    \/ \E h \in PairHandlers, d \in DeviceIds, n \in Names :
         \E t \in {Token(d, PAIRING_JWT_SECRET, FALSE), Token(d, "other-key", FALSE)} :
            PairQuery(h, d, n, t)
    \/ \E h \in PairHandlers : PairCommit(h)
    \/ \E h \in PairHandlers : PairRespond(h)
    \/ /\ issued["d1"] # <<>>
       /\ rl["d1"].count < MaxBurst
       /\ Heartbeat("d1", WireNow("Z"), TRUE, NoneApp,
                    ClientSignature(LastIssued("d1"), "d1", WireNow("Z"), TRUE, NoneApp))
    \/ \E i \in 1..MaxTasks : Evaluate(i)

SpecPairing == InitPairing /\ [][NextPairing]_vars

(***************************************************************************)
(* SpecWindow: the report store under clients whose clocks run ahead.      *)
(* Both devices are paired and have two distracting reports retained.      *)
(* They post the same two reports at the same instants, d1 in one order    *)
(* and d2 in the other; a report is stamped with StartTime plus a multiple *)
(* of WindowStep.  The server runs in UTC.                                 *)
(***************************************************************************)
ReportWalls == {StartTime + k * WindowStep : k \in 0..MaxLead}

\* the next report of device d, as sent
NextReport(d) == [wall |-> outbox[d].reports[outbox[d].sent + 1], zone |-> "Z"]

\* device d posts its next report, signed with its secret
Deliver(d) ==
    /\ outbox[d].sent < Len(outbox[d].reports)
    /\ HeartbeatHandler(d, NextReport(d), TRUE, <<YouTube>>,
                        ClientSignature(devices[d].secret, d, NextReport(d), TRUE,
                                        <<YouTube>>))
    /\ outbox' = [outbox EXCEPT ![d].sent = @ + 1]

InitWindow ==
    /\ now = StartTime
    /\ tzOffset = 0
    /\ redisUp = TRUE
    /\ hostsWritable = TRUE
    /\ schedReal = TRUE
    /\ running = TRUE
    /\ last = Note("start", "", 0, "")
    /\ \E a \in ReportWalls : \E b \in ReportWalls \ {a} :
          outbox = [d \in DeviceIds |->
                       [reports |-> IF d = "d1" THEN <<a, b>> ELSE <<b, a>>, sent |-> 0]]
    /\ devices = [d \in DeviceIds |-> PairedRow(IF d = "d1" THEN 1 ELSE 2)]
    /\ secretCtr = 2
    /\ issued = [d \in DeviceIds |-> IF d = "d1" THEN <<1>> ELSE <<2>>]
    /\ pairing = NoPairing
    /\ InitRateEmpty
    /\ hbz = [d \in DeviceIds |->
                 [set |-> {StoredReport(20, TRUE, YouTube), StoredReport(10, TRUE, TikTok)},
                  exp |-> StartTime - 10 + 2 * HEARTBEAT_WINDOW_SECONDS]]
    /\ tasks = <<>>
    /\ hosts = CleanHosts
    /\ InitBlock(History(Samples(2, 2), 0))

\* the clock moves on when both devices have posted equally many reports
NextWindow ==
    \/ \E d \in DeviceIds : Deliver(d)
    \/ \E i \in 1..MaxTasks : Evaluate(i)
    \/ /\ outbox["d1"].sent = outbox["d2"].sent
       /\ Tick(WindowStep, StartTime + WindowElapsed)

SpecWindow == InitWindow /\ [][NextWindow]_vars

(***************************************************************************)
(* SpecReversal: two BlockRecords and their reversals.  SpecBlock's        *)
(* initial states with the evaluations of the last two reports of d1       *)
(* queued; both find the thresholds met.                                   *)
(***************************************************************************)
InitReversal ==
    /\ InitEnv
    /\ tzOffset = 0
    /\ InitPaired
    /\ rl = [d \in DeviceIds |->
                IF d = "d1"
                THEN [count |-> 3, exp |-> StartTime + HEARTBEAT_RATE_WINDOW_SECONDS - 30]
                ELSE NoKey]
    /\ rlPassed = [d \in DeviceIds |-> rl[d].count]
    /\ req = [h \in Handlers |-> Idle]
    /\ hbz = [d \in DeviceIds |->
                 IF d = "d1"
                 THEN [set |-> {StoredReport(30, TRUE, YouTube),
                                StoredReport(20, TRUE, TikTok),
                                StoredReport(0, TRUE, YouTube)},
                       exp |-> StartTime + 2 * HEARTBEAT_WINDOW_SECONDS]
                 ELSE NoZSet]
    /\ tasks = <<"d1", "d1">>
    /\ hosts \in {CleanHosts, NoEolHosts}
    /\ InitBlock(History(Samples(2, 2), 0))

NextReversal ==
    \/ \E i \in 1..MaxTasks : Evaluate(i)
    \/ \E job \in jobs : JobFires(job)
    \/ ManualUnblock
    \/ HostsFlip
    \/ Tick(HEARTBEAT_RATE_WINDOW_SECONDS, StartTime + BlockElapsed)

SpecReversal == InitReversal /\ [][NextReversal]_vars

(***************************************************************************)
(* SpecExpiry: how long managed entries stay, with apscheduler importable  *)
(* and the hosts file writable throughout.  Evaluations, due jobs, the     *)
(* monitor loop, the clock and the shutdown of the process are scheduled   *)
(* fairly; the manual block endpoint is called at will.                    *)
(***************************************************************************)
TickExpiry == Tick(HEARTBEAT_RATE_WINDOW_SECONDS, StartTime + BlockElapsed)
EvaluateExpiry == \E i \in 1..MaxTasks : Evaluate(i)
JobFiresExpiry == \E job \in jobs : JobFires(job)
MonitorExpiry == \E sample \in {NoiseSample, SignalSample} : MonitorStep(sample, TRUE)

NextExpiry ==
    \/ EvaluateExpiry
    \/ JobFiresExpiry
    \/ MonitorExpiry
    \/ TickExpiry
    \/ ManualBlock
    \/ Shutdown

SpecExpiry ==
    /\ InitBlocking
    /\ [][NextExpiry]_vars
    /\ WF_vars(EvaluateExpiry)
    /\ WF_vars(JobFiresExpiry)
    /\ WF_vars(MonitorExpiry)
    /\ WF_vars(TickExpiry)
    /\ WF_vars(Shutdown)

(***************************************************************************)
(* SpecDaily: the monitor loop across the daily cutoff.  The process       *)
(* starts LongLead seconds before StartTime (23:59:00 UTC), the loop with  *)
(* the default interval or with a longer one.                              *)
(***************************************************************************)
Intervals == {MONITOR_INTERVAL, LongInterval}

InitDaily ==
    /\ now = StartTime - LongLead
    /\ tzOffset = 0
    /\ redisUp = TRUE
    /\ hostsWritable = TRUE
    /\ schedReal = TRUE
    /\ outbox = NoOutbox
    /\ running = TRUE
    /\ last = Note("start", "", 0, "")
    /\ InitPaired
    /\ InitRateEmpty
    /\ hbz = [d \in DeviceIds |-> NoZSet]
    /\ tasks = <<>>
    /\ hosts = CleanHosts
    /\ events = <<>>
    /\ records = <<>>
    /\ applied = {}
    /\ jobs = {}
    /\ hosts0 = hosts
    /\ backups = {[name |-> LocalNow, content |-> hosts]}
    /\ unb = NoUnblock
    /\ \E interval \in Intervals :
          monitor = [alive |-> TRUE, next |-> now, interval |-> interval]

NextDaily ==
    \/ \E sample \in {NoiseSample, SignalSample} : MonitorStep(sample, TRUE)
    \/ Tick(DailyStep, StartTime + DailyElapsed)

SpecDaily == InitDaily /\ [][NextDaily]_vars

(***************************************************************************)
(* SpecRate claims.                                                        *)
(***************************************************************************)
\* handler h receives the result of its INCR for device d in this step
IncrBy(h, d) == req[h].pc = "idle" /\ req'[h].pc # "idle" /\ req'[h].dev = d

\* handler h sends its response in this step
RespondBy(h) == req[h].pc = "respond" /\ req'[h].pc = "idle"

\* C4: during the life of one rate-limit key at most HEARTBEAT_RATE_LIMIT
\* requests of the device pass enforce_heartbeat_rate_limit, however the
\* commands of concurrent handlers interleave; a request whose INCR comes after
\* the 60th pass of the window is marked limited, and a limited request is
\* answered 429 (and only a limited one is).
C4_AtMostLimitPass ==
    /\ [](\A d \in DeviceIds : rlPassed[d] <= HEARTBEAT_RATE_LIMIT)
    /\ [][\A h \in Handlers :
            /\ \A d \in DeviceIds :
                  (IncrBy(h, d) /\ rlPassed[d] = HEARTBEAT_RATE_LIMIT)
                      => req'[h].limited
            /\ RespondBy(h) => (req[h].limited <=> last'.status = 429)]_vars

\* the cap is reached, a further request has just been answered 429 and another
\* handler is still in flight
C4_Witness ==
    /\ rlPassed["d1"] = HEARTBEAT_RATE_LIMIT
    /\ last.op = "heartbeat" /\ last.status = 429
    /\ \E h \in Handlers : req[h].pc = "respond" /\ req[h].limited

\* the counter of device d can no longer acquire an expiry: it exists without
\* one and no handler is about to issue EXPIRE for it
NeverExpires(d) ==
    /\ rl[d].count > 0
    /\ rl[d].exp = NoTTL
    /\ \A h \in Handlers : ~(req[h].pc = "expire" /\ req[h].dev = d)

\* C5: the rate-limit window always ends; no reachable state, including one
\* where a handler stopped between INCR and EXPIRE, leaves the counter of a
\* device without an end of its window.
C5_WindowAlwaysEnds == \A d \in DeviceIds : ~NeverExpires(d)

\* once a counter can no longer expire it stays so, whatever happens next, and
\* from the 61st request on every request is limited
C5_StuckForever ==
    [][\A d \in DeviceIds :
          NeverExpires(d) =>
              /\ NeverExpires(d)'
              /\ rl'[d].count >= rl[d].count
              /\ \A h \in Handlers :
                    (IncrBy(h, d) /\ rl[d].count >= HEARTBEAT_RATE_LIMIT)
                        => req'[h].limited]_vars

\* a device whose window cannot end is answered 429
C5_StuckLimited ==
    /\ NeverExpires("d1")
    /\ now >= StartTime + 2 * HEARTBEAT_RATE_WINDOW_SECONDS
    /\ last.op = "heartbeat" /\ last.status = 429

(***************************************************************************)
(* SpecStore claims.                                                       *)
(***************************************************************************)
\* C6: load_recent_heartbeats called at time T never returns an entry whose
\* timestamp is less than T - HEARTBEAT_WINDOW_SECONDS, for every sequence of
\* writes interleaved with reads.
C6_NoStaleEntryReturned ==
    (last.op = "summary" /\ last.status = 200)
        => \A e \in last.arg.series : e.ts >= now - HEARTBEAT_WINDOW_SECONDS

\* the same with the server clock in UTC
C6_HoldsInUtc == tzOffset = 0 => C6_NoStaleEntryReturned

\* a read returns a report the client stamped with a UTC instant more than a
\* retention window ago
C6_StaleAwareReturned ==
    /\ last.op = "summary" /\ last.status = 200
    /\ \E e \in last.arg.series : e.ts = StartTime /\ now >= StartTime + 2 * StoreStep

(***************************************************************************)
(* SpecPolicy claims.                                                      *)
(***************************************************************************)
\* the domains of the managed entries of a hosts file, in file order
Managed(h) ==
    LET marked == SelectSeq(h.lines, HasMark)
    IN  [i \in 1..Len(marked) |-> marked[i].dom]

\* the retained reports of a device: what the report store returns for it
Retained(d) == LoadRecentHeartbeats(d)

\* the rows of the Event table of the last two minutes, the newest 20 at most
PcWindow ==
    LET inWindow == {i \in 1..Len(events) :
                        events[i].timestamp >= now - PC_WINDOW_SECONDS}
    IN  {i \in inWindow : Cardinality({j \in inWindow : j > i}) < PC_EVENT_LIMIT}

\* productive / max(1, total) >= 0.7 and distract_count >= 3 and screen_on_count >= 2
Trigger(d) ==
    LET total == Cardinality(PcWindow)
        productive == Cardinality({i \in PcWindow : events[i].productive})
        distract_count == Cardinality({e \in Retained(d) : IsDistracting(e)})
        screen_on_count == Cardinality({e \in Retained(d) : e.screen_on})
    IN  /\ 10 * productive >= 7 * (IF total >= 1 THEN total ELSE 1)
        /\ distract_count >= 3
        /\ screen_on_count >= 2

\* this step creates exactly one BlockRecord, active, for the configured domains
OneRecordCreated ==
    /\ Len(records') = Len(records) + 1
    /\ SubSeq(records', 1, Len(records)) = records
    /\ records'[Len(records')].active
    /\ records'[Len(records')].domains = BLOCK_DOMAINS_DEFAULT

\* this step appends the configured domain list to the rule list
DomainsAppended == Managed(hosts') = Managed(hosts) \o BLOCK_DOMAINS_DEFAULT

\* C7 as stated: one run of evaluate_device_state creates a BlockRecord
\* (active=true) and appends the configured domain list to the rule list if and
\* only if the three thresholds hold; otherwise no record is created and the
\* rule list is unchanged.
C7_TriggerIff ==
    [][last'.op = "evaluate" =>
          IF Trigger(last'.dev)
          THEN OneRecordCreated /\ DomainsAppended
          ELSE records' = records /\ hosts' = hosts]_vars

\* C7, amended: a run that can read the report store creates exactly one
\* BlockRecord (active=true) if and only if the three thresholds hold, and then
\* appends the configured domain list unless the write to the rule list fails,
\* in which case the record is created all the same and the rule list is
\* unchanged; below a threshold, or when the report store cannot be read, no
\* record is created and the rule list is unchanged.
C7_TriggerIffWhenReadable ==
    [][last'.op = "evaluate" =>
          IF redisUp /\ Trigger(last'.dev)
          THEN /\ OneRecordCreated
               /\ IF hostsWritable THEN DomainsAppended ELSE hosts' = hosts
          ELSE records' = records /\ hosts' = hosts]_vars

\* an evaluation has created a record and appended the domains, over an Event
\* table where only the newest 20 rows of the window reach the ratio
C7_Witness ==
    /\ last.op = "evaluate" /\ last.detail = "blocked"
    /\ events = History(Samples(0, 1) \o Samples(14, 20), 0)
    /\ Len(records) = 1 /\ records[1].active
    /\ Managed(hosts) = BLOCK_DOMAINS_DEFAULT

\* an evaluation over exactly 7 productive rows of 10 has blocked
C7_RatioBoundary ==
    /\ last.op = "evaluate" /\ last.detail = "blocked"
    /\ events = History(Samples(7, 10), 0)

\* an evaluation with the phone counters reached and 6 productive rows of 10
\* has not blocked
C7_BelowRatio ==
    /\ last.op = "evaluate" /\ last.detail = "no block"
    /\ events = History(Samples(6, 10), 0)
    /\ Cardinality({e \in Retained("d1") : IsDistracting(e)}) >= 3
    /\ Cardinality({e \in Retained("d1") : e.screen_on}) >= 2

(***************************************************************************)
(* SpecBlock claims.                                                       *)
(***************************************************************************)
\* the rule list holds no managed entry for any of `domains`
FreeOf(h, domains) ==
    \A i \in 1..Len(domains), k \in 1..Len(Managed(h)) : Managed(h)[k] # domains[i]

\* the rule list holds a managed entry for each of `domains`
HoldsAll(h, domains) ==
    \A i \in 1..Len(domains) : \E k \in 1..Len(Managed(h)) : Managed(h)[k] = domains[i]

Deactivated(id) == [records EXCEPT ![id].active = FALSE]

\* C8 as stated: scheduled_unblock on a record ends with active=false and the
\* rule list free of the record's domains; invoked again on the record, by now
\* inactive (a manual reversal may have come in between), it changes neither
\* the record nor the rule list.
C8_ReversalIdempotent ==
    [][last'.op = "scheduled_unblock" =>
          LET id == last'.status IN
          IF records[id].active
          THEN records' = Deactivated(id) /\ FreeOf(hosts', records[id].domains)
          ELSE records' = records /\ hosts' = hosts]_vars

\* C8, amended: scheduled_unblock on an active record ends with active=false,
\* and with the rule list free of the record's domains when the rule list could
\* be rewritten; when it could not, the entries stay and the record is inactive
\* all the same.  Invoked again on the inactive record it changes neither the
\* record nor the rule list.
C8_ReversalIdempotentBestEffort ==
    [][last'.op = "scheduled_unblock" =>
          LET id == last'.status IN
          IF records[id].active
          THEN /\ records' = Deactivated(id)
               /\ IF hostsWritable THEN FreeOf(hosts', records[id].domains)
                  ELSE hosts' = hosts
          ELSE records' = records /\ hosts' = hosts]_vars

\* scheduled_unblock has run a second time on a record, after midnight, and
\* returned at once; the record is inactive and the rule list free of its domains
C8_Witness ==
    /\ last.op = "scheduled_unblock" /\ last.detail = "return"
    /\ last.status = 1
    /\ 1 \in applied /\ ~records[1].active
    /\ \A job \in jobs : job.id # 1
    /\ FreeOf(hosts, records[1].domains)

\* the second invocation found entries of a later manual block and left them
C8_SecondLeavesLaterBlock ==
    /\ last.op = "scheduled_unblock" /\ last.detail = "return"
    /\ ~records[1].active
    /\ ~FreeOf(hosts, records[1].domains)

\* C9: in every state, a BlockRecord whose rule-list append succeeded and which
\* is active has a managed entry in the rule list for each of its domains.
C9_ActiveImpliesListed ==
    \A id \in applied :
        records[id].active => HoldsAll(hosts, records[id].domains)

\* the texts of the lines without the marker, in file order
Unmarked(h) ==
    LET plain == SelectSeq(h.lines, LAMBDA line : ~HasMark(line))
    IN  [i \in 1..Len(plain) |-> plain[i].text]

\* C10: after any sequence of block and unblock operations the lines of the
\* rule list without the marker are exactly the pre-existing ones, in order.
C10_UnmarkedPreserved == Unmarked(hosts) = Unmarked(hosts0)

\* the same for a hosts file that ended with a newline
C10_HoldsWithNewline == hosts0.eol => C10_UnmarkedPreserved

\* a pre-existing line is gone after an unblock
C10_LineLost ==
    /\ Managed(hosts) = <<>>
    /\ Len(hosts.lines) < Len(hosts0.lines)

\* C11: when the process shuts down (and the hosts file can be written), the
\* rule list is restored to the content it had before the process applied its
\* first block, whatever blocks, unblocks and manual calls happened in the run.
C11_ShutdownRestoresStart ==
    (last.op = "shutdown" /\ hostsWritable) => hosts = hosts0

\* the same for a run without manual block or unblock calls and without a
\* second backup: the only backup is the one taken at startup
C11_HoldsWithStartupBackupOnly ==
    (last.op = "shutdown" /\ hostsWritable /\ Cardinality(backups) = 1
        /\ \A b \in backups : b.content = hosts0)
        => hosts = hosts0

\* the process has shut down and the rule list holds managed entries that the
\* hosts file did not have at startup
C11_BlockedAfterShutdown ==
    /\ last.op = "shutdown" /\ hostsWritable
    /\ Managed(hosts0) = <<>>
    /\ Managed(hosts) # <<>>

(***************************************************************************)
(* SpecRace claims.                                                        *)
(***************************************************************************)
\* C12: the mutations of the rule list are mutually exclusive and no update is
\* lost: while an unblock_all is between its read and its rewrite no other
\* writer changes the hosts file, and a line appended to the file since the
\* read is still in the file after the rewrite.
C12_NoLostAppend ==
    [][/\ (unb.pc = "read" /\ unb'.pc = "read") => hosts' = hosts
       /\ (unb.pc = "read" /\ unb'.pc = "idle" /\ hostsWritable) =>
             \A i \in (unb.seen + 1)..Len(hosts.lines) :
                \E k \in 1..Len(hosts'.lines) : hosts'.lines[k] = hosts.lines[i]]_vars

\* the second half alone: the rewrite keeps what was appended since the read
C12_RewriteKeepsAppends ==
    [][(unb.pc = "read" /\ unb'.pc = "idle" /\ hostsWritable) =>
          \A i \in (unb.seen + 1)..Len(hosts.lines) :
             \E k \in 1..Len(hosts'.lines) : hosts'.lines[k] = hosts.lines[i]]_vars

(***************************************************************************)
(* More SpecBlock claims.                                                  *)
(***************************************************************************)
\* C13: no step deletes a BlockRecord or changes its domains, created_at or
\* expires_at; no step sets active back to true; and active goes from true to
\* false only in a step of scheduled_unblock.
C13_RecordsDeactivatedOnce ==
    [][/\ Len(records') >= Len(records)
       /\ \A id \in 1..Len(records) :
             /\ records'[id].domains = records[id].domains
             /\ records'[id].created_at = records[id].created_at
             /\ records'[id].expires_at = records[id].expires_at
             /\ records'[id].active => records[id].active
             /\ (records[id].active /\ ~records'[id].active)
                    => (last'.op = "scheduled_unblock" /\ last'.status = id)]_vars

\* a record has been deactivated by its reversal and later steps, a manual block
\* among them, have been taken
C13_Witness ==
    /\ Len(records) >= 1 /\ ~records[1].active
    /\ last.op = "manual_block" /\ last.status = 200

(***************************************************************************)
(* SpecLive claims.                                                        *)
(***************************************************************************)
\* the record exists, is active and expires within the time the model covers
ActiveAndDue(id) ==
    /\ id \in 1..Len(records)
    /\ records[id].active
    /\ records[id].expires_at < StartTime + BlockElapsed

\* C14: under fair scheduling every BlockRecord created with active=true
\* eventually becomes active=false, with the real scheduler and with the
\* substitute used when the scheduler library is unavailable.
C14_EveryRecordDeactivated ==
    \A id \in 1..MaxRecords :
        ActiveAndDue(id) ~> (id \in 1..Len(records) /\ ~records[id].active)

\* the same with the real scheduler only
C14_HoldsWithRealScheduler ==
    \A id \in 1..MaxRecords :
        (schedReal /\ ActiveAndDue(id))
            ~> (id \in 1..Len(records) /\ ~records[id].active)

\* with the real scheduler a reversal keyed by the record's id is registered for
\* expires_at by the evaluation that creates the record
C14_JobRegistered ==
    [][(last'.op = "evaluate" /\ last'.detail = "blocked" /\ schedReal) =>
          [id |-> Len(records'), run_date |-> records'[Len(records')].expires_at]
              \in jobs']_vars

\* with the substitute a record is active after its expiry and no job exists
C14_ActiveAfterExpiry ==
    /\ ~schedReal
    /\ Len(records) >= 1 /\ records[1].active
    /\ now > records[1].expires_at
    /\ jobs = {}

C15_UnsignedFillsWindow ==
    /\ last.op = "heartbeat" /\ last.status = 403 /\ last.sig = NoSig
    /\ rl["d1"].count = HEARTBEAT_RATE_LIMIT

(***************************************************************************)
(* Claims about the monitor loop, checked under SpecBlock.                 *)
(***************************************************************************)
\* C16: every iteration of background_monitor_and_block appends exactly one
\* Event to the Event table, stamped with the iteration's time and with
\* productive = not noise, and leaves the earlier Events alone, whether or not
\* the screenshot or the direct block of a noise sample succeeded.
C16_OneEventPerSample ==
    [][last'.op = "monitor" =>
          /\ Len(events') = Len(events) + 1
          /\ SubSeq(events', 1, Len(events)) = events
          /\ events'[Len(events')] =
                [timestamp |-> UtcNow.wall, productive |-> last'.detail # "noise"]]_vars

\* a noise sample whose direct block did not happen (the screenshot or the
\* write of the rule list failed, outside the daily reversal) has its Event
C16_Witness ==
    /\ last.op = "monitor" /\ last.detail = "noise"
    /\ ~DailyCutoff(UtcNow.wall)
    /\ ~HoldsAll(hosts, BLOCK_LIST)
    /\ Len(events) >= 1
    /\ events[Len(events)] = [timestamp |-> UtcNow.wall, productive |-> FALSE]

(***************************************************************************)
(* Claims about failures of the stores, checked under SpecStore.           *)
(***************************************************************************)
\* the last heartbeat came from a paired device and carried the signature of
\* its report under the device's secret
LastAuthenticated ==
    /\ last.op = "heartbeat"
    /\ devices[last.dev].exists /\ devices[last.dev].paired
    /\ devices[last.dev].secret # NoSecret
    /\ last.sig # NoSig
    /\ verify_hmac(devices[last.dev].secret,
                   CanonicalPayload(last.dev,
                                    IsoFormat(ParseDatetime(last.arg.timestamp)),
                                    last.arg.screen_on, last.arg.foreground_app),
                   last.sig)

\* C17 as stated: an authenticated heartbeat that arrives while the report
\* store is unavailable is answered 200, never 500 or another rejection.
C17_AcceptedWhenStoreDown ==
    (LastAuthenticated /\ ~redisUp) => last.status = 200

\* an authenticated heartbeat answered 500 while the store is unavailable,
\* with nothing retained and no evaluation queued for it
C17_AuthenticatedGets500 ==
    /\ LastAuthenticated /\ ~redisUp
    /\ last.status = 500 /\ last.detail = "heartbeat processing failed"

(***************************************************************************)
(* Claims about failures of the rule list, checked under SpecBlock.        *)
(***************************************************************************)
\* C18 as stated: a failure to apply or remove rule-list entries never reaches
\* a caller: the manual endpoints do not answer with an error and the monitor
\* thread keeps sampling.
C18_FailuresNeverPropagate ==
    /\ last.op \in {"manual_block", "manual_unblock"} => last.status = 200
    /\ monitor.alive

\* a manual endpoint has answered 500 because the rule list cannot be written
C18_ManualEndpoint500 ==
    /\ last.op \in {"manual_block", "manual_unblock"}
    /\ last.status = 500
    /\ ~hostsWritable

\* the monitor thread has ended in its daily reversal, after writing its Event
C18_MonitorEnded ==
    /\ last.op = "monitor"
    /\ ~monitor.alive
    /\ running

(***************************************************************************)
(* Claims about the queue of evaluations, checked under SpecIngest.        *)
(***************************************************************************)
\* the status of the response to the heartbeat observed in o, from what the
\* handler reads: Redis, the device's counter, its Device row and the request
HeartbeatStatus(o) ==
    LET device == devices[o.dev]
        payload_bytes == CanonicalPayload(o.dev,
                                          IsoFormat(ParseDatetime(o.arg.timestamp)),
                                          o.arg.screen_on, o.arg.foreground_app)
    IN  IF ~redisUp THEN 500
        ELSE IF RedisIncr(rl[o.dev]).count > HEARTBEAT_RATE_LIMIT THEN 429
        ELSE IF ~device.exists \/ ~device.paired THEN 403
        ELSE IF device.secret = NoSecret THEN 500
        ELSE IF o.sig = NoSig \/ ~verify_hmac(device.secret, payload_bytes, o.sig)
        THEN 403
        ELSE 200

\* C19: a heartbeat answered 200 puts exactly one evaluation of its device at
\* the end of the queue and any other heartbeat puts none; an evaluation runs
\* only for an entry of the queue, that is after the response that queued it,
\* and takes that entry away whatever its outcome; nothing else touches the
\* queue; and the status of every heartbeat is determined by Redis, the
\* device's counter, its Device row and the request alone, so no outcome of an
\* evaluation (a block, no block, a failed read of the report store) changes it.
C19_EvaluationQueuedOncePerAccepted ==
    [][/\ (last'.op = "heartbeat" /\ last'.status = 200) =>
             tasks' = Append(tasks, last'.dev)
       /\ (last'.op = "heartbeat" /\ last'.status # 200) => tasks' = tasks
       /\ last'.op = "heartbeat" => last'.status = HeartbeatStatus(last')
       /\ last'.op = "evaluate" =>
             \E i \in 1..Len(tasks) : tasks[i] = last'.dev /\ tasks' = RemoveAt(tasks, i)
       /\ last'.op \notin {"heartbeat", "evaluate"} => tasks' = tasks]_vars

\* a heartbeat of d1 has been answered 200 and has queued its evaluation after
\* the evaluation of an earlier one ended in a block that failed to apply, and
\* after requests for d2 were rejected up to the 429
C19_Witness ==
    /\ last.op = "heartbeat" /\ last.dev = "d1" /\ last.status = 200
    /\ tasks = <<"d1">>
    /\ Len(records) = 1 /\ applied = {}
    /\ rl["d2"].count > HEARTBEAT_RATE_LIMIT

(***************************************************************************)
(* Claims about the order of limiter and authentication, checked under     *)
(* SpecAuth.                                                               *)
(***************************************************************************)
\* C20: with Redis reachable, a heartbeat for a device_id whose window counter
\* has reached the cap or is above it is answered 429, whether or not the
\* Device row exists or is paired and whatever the signature; the handler
\* stops before the canonical payload is built, so no signature is verified,
\* and writes nothing but the counter.
C20_LimiterBeforeAuthentication ==
    [][(/\ last'.op = "heartbeat"
        /\ redisUp
        /\ rl[last'.dev].count >= HEARTBEAT_RATE_LIMIT) =>
          /\ last'.status = 429
          /\ last'.body = NoBody
          /\ devices' = devices /\ hbz' = hbz /\ tasks' = tasks]_vars

\* a paired device whose counter was above the cap has sent a report with its
\* correct signature and has been answered 429
C20_Witness ==
    /\ LastAuthenticated
    /\ last.status = 429
    /\ rl[last.dev].count > HEARTBEAT_RATE_LIMIT + 1

\* the same for a device_id without a Device row
C20_UnknownDeviceLimited ==
    /\ last.op = "heartbeat" /\ last.status = 429
    /\ ~devices[last.dev].exists
    /\ rl[last.dev].count > HEARTBEAT_RATE_LIMIT + 1

(***************************************************************************)
(* Claims about the window of the report store, checked under SpecWindow.  *)
(***************************************************************************)
\* the entries of device d stamped within [T - 300 s, T], T being now
InWindow(d) ==
    {e \in hbz[d].set : now - HEARTBEAT_WINDOW_SECONDS <= e.ts /\ e.ts <= now}

\* C21 as stated: load_recent_heartbeats at time T returns only entries whose
\* timestamp lies in [T - 300 s, T]; a report stamped later than T is not
\* returned.
C21_LoadedWithinWindow ==
    \A d \in DeviceIds : LoadRecentHeartbeats(d) \subseteq InWindow(d)

\* an accepted report stamped later than now is returned
C21_FutureReportReturned ==
    /\ last.op = "heartbeat" /\ last.status = 200
    /\ \E e \in LoadRecentHeartbeats(last.dev) : e.ts > now

\* an evaluation has blocked although fewer than DISTRACTION_THRESHOLD reports
\* of the device are stamped within the window: a report from the future counted
C21_FutureReportCounted ==
    /\ last.op = "evaluate" /\ last.detail = "blocked"
    /\ DistractCount(InWindow(last.dev)) < DISTRACTION_THRESHOLD

(***************************************************************************)
(* More SpecPolicy claims.                                                 *)
(***************************************************************************)
\* C22: when no Event is stamped within the last 2 minutes, the ratio's
\* denominator is 1 and the ratio 0, so the PC does not count as productive,
\* and a run of evaluate_device_state creates no BlockRecord, adds no entry to
\* the rule list and registers no reversal, whatever the device's reports are.
C22_IdlePcNeverBlocks ==
    [][(last'.op = "evaluate" /\ RecentPc = <<>>) =>
          /\ Max(1, Len(RecentPc)) = 1
          /\ PcProdCount(RecentPc) = 0
          /\ ~PcIsProductive(RecentPc)
          /\ records' = records /\ hosts' = hosts /\ jobs' = jobs]_vars

\* an evaluation has run and left no record for a device with three distracting
\* reports, two of them with the screen on, the only Events being older than
\* 2 minutes
C22_Witness ==
    /\ last.op = "evaluate" /\ last.detail = "no block"
    /\ events # <<>> /\ RecentPc = <<>>
    /\ DistractCount(LoadRecentHeartbeats(last.dev)) >= DISTRACTION_THRESHOLD
    /\ ScreenOnCount(LoadRecentHeartbeats(last.dev)) >= SCREEN_ON_THRESHOLD
    /\ records = <<>>

(***************************************************************************)
(* More SpecLive claims.                                                   *)
(***************************************************************************)
\* the reversal registered for the newest record of `recs`
ReversalOf(recs) == [id |-> Len(recs), run_date |-> recs[Len(recs)].expires_at]

\* C23 as stated: on trigger the BlockRecord is persisted with active=true
\* whether or not the rule list can be mutated; if block_domains fails, the
\* rule list is unchanged, the record remains active=true and its reversal is
\* scheduled all the same.
C23_RecordAndReversalDespiteFailure ==
    [][(last'.op = "evaluate" /\ last'.detail = "blocked") =>
          /\ Len(records') = Len(records) + 1
          /\ records'[Len(records')].active
          /\ ~hostsWritable =>
                /\ hosts' = hosts
                /\ ReversalOf(records') \in jobs']_vars

\* the same where apscheduler could be imported
C23_HoldsWithRealScheduler ==
    [][(last'.op = "evaluate" /\ last'.detail = "blocked" /\ schedReal) =>
          /\ Len(records') = Len(records) + 1
          /\ records'[Len(records')].active
          /\ ~hostsWritable =>
                /\ hosts' = hosts
                /\ ReversalOf(records') \in jobs']_vars

\* with the substitute scheduler: the block failed to apply, the record is
\* active and no reversal exists for it
C23_ActiveWithoutReversal ==
    /\ last.op = "evaluate" /\ last.detail = "blocked"
    /\ ~schedReal /\ ~hostsWritable
    /\ records[Len(records)].active
    /\ hosts = hosts0
    /\ jobs = {}

(***************************************************************************)
(* More SpecBlock claims.                                                  *)
(***************************************************************************)
\* C24 as stated: after the manual_unblock endpoint completes, every
\* BlockRecord that was active before the call has active=false.
C24_ManualUnblockDeactivates ==
    [][(last'.op = "manual_unblock" /\ last'.status = 200) =>
          \A id \in 1..Len(records) : records[id].active => ~records'[id].active]_vars

\* manual_unblock has returned success, the rule list holds no managed entry
\* and a BlockRecord is still active
C24_ActiveAfterManualUnblock ==
    /\ last.op = "manual_unblock" /\ last.status = 200
    /\ Managed(hosts) = <<>>
    /\ \E id \in 1..Len(records) : records[id].active

\* C25: a manual_unblock that returns success, run without another writer of
\* the rule list, has put a snapshot of the rule list as it was into the backup
\* directory, and leaves the rule list without any marker-tagged entry and with
\* exactly the unmarked lines it had immediately before the call, in order.
C25_ManualUnblockCleans ==
    [][(last'.op = "manual_unblock" /\ last'.status = 200) =>
          /\ [name |-> LocalNow, content |-> hosts] \in backups'
          /\ Managed(hosts') = <<>>
          /\ Unmarked(hosts') = Unmarked(hosts)]_vars

\* manual_unblock has returned success; the snapshot it took and restored from
\* holds managed entries, the rule list holds none
C25_Witness ==
    /\ last.op = "manual_unblock" /\ last.status = 200
    /\ \E b \in backups :
          /\ b.name = LocalNow
          /\ Managed(b.content) # <<>>
          /\ Unmarked(hosts) = Unmarked(b.content)
    /\ Cardinality(backups) >= 2
    /\ Managed(hosts) = <<>>

(***************************************************************************)
(* Claims about several BlockRecords, checked under SpecReversal.          *)
(***************************************************************************)
\* C26 as stated: the scheduled reversal of one BlockRecord leaves in place the
\* managed entries that belong to the other BlockRecords that are still active.
C26_ReversalLeavesOtherRecords ==
    [][(last'.op = "scheduled_unblock" /\ last'.detail = "deactivated") =>
          \A other \in applied \ {last'.status} :
              (records'[other].active /\ HoldsAll(hosts, records[other].domains))
                  => HoldsAll(hosts', records[other].domains)]_vars

\* the reversal of one record has emptied the rule list while another record,
\* whose entries had been appended, is active
C26_OtherRecordStripped ==
    /\ last.op = "scheduled_unblock" /\ last.detail = "deactivated"
    /\ Managed(hosts) = <<>>
    /\ \E other \in applied \ {last.status} : records[other].active

(***************************************************************************)
(* Claims about the bookkeeping of blocks, checked under SpecBlock.        *)
(***************************************************************************)
\* C27 as stated: every application of managed entries to the rule list, by the
\* policy, by the monitor's direct block or by the manual block endpoint, comes
\* with a BlockRecord with active=true, and the rule list never holds managed
\* entries that no BlockRecord accounts for.
C27_EveryBlockHasRecord ==
    /\ (/\ last.op \in {"evaluate", "monitor", "manual_block"}
        /\ \E k \in 1..Len(BLOCK_LIST) : ~FreeOf(hosts, <<BLOCK_LIST[k]>>))
          => \E id \in 1..Len(records) : records[id].active
    /\ Managed(hosts) # <<>> => records # <<>>

\* the manual block endpoint has appended its entries and the BlockRecord table
\* is empty
C27_ManualBlockWithoutRecord ==
    /\ last.op = "manual_block" /\ last.status = 200
    /\ HoldsAll(hosts, BLOCK_LIST)
    /\ records = <<>>

\* the same for the monitor's direct block on a noise sample
C27_MonitorBlockWithoutRecord ==
    /\ last.op = "monitor" /\ last.detail = "noise"
    /\ HoldsAll(hosts, BLOCK_LIST)
    /\ records = <<>>

(***************************************************************************)
(* Claims about the duration of a block, checked under SpecExpiry.         *)
(***************************************************************************)
\* C28 as stated: whenever the rule list holds managed entries, added by the
\* policy, by the monitor's direct block or by the manual block endpoint, it
\* is eventually free of managed entries, without a call of manual_unblock.
C28_EntriesEventuallyRemoved ==
    (Managed(hosts) # <<>>) ~> (Managed(hosts) = <<>>)

\* the process has shut down, the hosts file is writable, and the rule list it
\* leaves behind holds managed entries: nothing is left to remove them
C28_EntriesOutliveProcess ==
    /\ ~running
    /\ hostsWritable
    /\ Managed(hosts) # <<>>
    /\ hosts = restore_latest_backup(backups, hosts)

(***************************************************************************)
(* Claims about the daily reversal, checked under SpecDaily.               *)
(***************************************************************************)
StartDay == StartTime \div SECONDS_PER_DAY

\* the iterations of the loop on StartDay that called unblock_all.  An
\* iteration stamps its Event with the time it tests against the cutoff.
DailyReversals ==
    {i \in 1..Len(events) :
        /\ events[i].timestamp \div SECONDS_PER_DAY = StartDay
        /\ DailyCutoff(events[i].timestamp)}

\* C29 as stated: on a day during which the loop runs it issues the daily
\* reversal exactly once, with every sampling interval: never twice, and once
\* by the time the loop sleeps into the next day.
C29_ReversalOncePerDay ==
    /\ Cardinality(DailyReversals) <= 1
    /\ (monitor.alive /\ monitor.next \div SECONDS_PER_DAY > StartDay)
          => Cardinality(DailyReversals) = 1

\* with the default interval the loop has called unblock_all three times
\* within the minute, the last time on a rule list it had blocked again
C29_ReversalRepeated ==
    /\ monitor.interval = MONITOR_INTERVAL
    /\ Cardinality(DailyReversals) >= 3
    /\ last.op = "monitor" /\ last.detail = "noise"

\* with a longer interval the loop is alive and has slept through the minute
C29_ReversalMissed ==
    /\ monitor.interval = LongInterval
    /\ monitor.alive
    /\ monitor.next \div SECONDS_PER_DAY > StartDay
    /\ events # <<>>
    /\ DailyReversals = {}

(***************************************************************************)
(* More SpecWindow claims.                                                 *)
(***************************************************************************)
\* every report of the outboxes has been posted
AllPosted == \A d \in DeviceIds : outbox[d].sent = Len(outbox[d].reports)

\* the reports of device d are stamped within [T - 300 s, T], T being now
StampedInWindow(d) ==
    \A k \in 1..Len(outbox[d].reports) :
        /\ now - HEARTBEAT_WINDOW_SECONDS <= outbox[d].reports[k]
        /\ outbox[d].reports[k] <= now

\* C30 as stated: d1 and d2 hold the same retained reports and have posted the
\* same two reports at the same instants, d1 in one order and d2 in the other,
\* and all were accepted; when the posted reports are stamped within the
\* retention window, load_recent_heartbeats returns the same entries for both.
C30_OrderIndependent ==
    (AllPosted /\ StampedInWindow("d1") /\ StampedInWindow("d2"))
        => LoadRecentHeartbeats("d1") = LoadRecentHeartbeats("d2")

\* both devices posted both reports, all stamped within the window, and the
\* store returns a different report for each
C30_OrderDecides ==
    /\ AllPosted /\ StampedInWindow("d1") /\ StampedInWindow("d2")
    /\ LoadRecentHeartbeats("d1") # {} /\ LoadRecentHeartbeats("d2") # {}
    /\ LoadRecentHeartbeats("d1") # LoadRecentHeartbeats("d2")

(***************************************************************************)
(* Claims about the expiry of the report record, checked under SpecStore.  *)
(***************************************************************************)
\* the step is an accepted heartbeat of device d (its report was stored)
StoredFor(d) == last'.op = "heartbeat" /\ last'.dev = d /\ last'.status = 200

\* C31: a store that leaves a record of the device sets the record's expiry to
\* 2 * HEARTBEAT_WINDOW_SECONDS from now; no other step moves the expiry, a
\* record that exists has an expiry still ahead, so no record exists once the
\* device has stored nothing for 2 * HEARTBEAT_WINDOW_SECONDS.
C31_SilentRecordExpires ==
    [][\A d \in DeviceIds :
         /\ (StoredFor(d) /\ hbz'[d].set # {})
                => hbz'[d].exp = now + 2 * HEARTBEAT_WINDOW_SECONDS
         /\ ~StoredFor(d) => (hbz'[d] = hbz[d] \/ hbz'[d].set = {})
         /\ hbz'[d].set # {} => (hbz'[d].exp # NoTTL /\ now' < hbz'[d].exp)]_vars

\* an accepted report of d1 was stored, d1 then stayed silent for
\* 2 * HEARTBEAT_WINDOW_SECONDS, and the record is gone
C31_Witness ==
    /\ last.op = "tick"
    /\ tasks # <<>>
    /\ now - devices["d1"].last_seen >= 2 * HEARTBEAT_WINDOW_SECONDS
    /\ hbz["d1"].set = {}

(***************************************************************************)
(* Claims about resubmitted reports, checked under SpecPolicy.             *)
(***************************************************************************)
\* the entry of a request: its timestamp as seconds since the epoch, screen_on
\* and the lowercased foreground_app
EntryOf(arg) ==
    [ts |-> Timestamp(ParseDatetime(arg.timestamp)), screen_on |-> arg.screen_on,
     foreground_app |-> AppLabel(arg.foreground_app)]

\* C32: an accepted heartbeat whose (timestamp, screen_on, lowercased
\* foreground_app) is already an entry of the device's record adds no entry and
\* raises neither distract_count nor screen_on_count; an accepted heartbeat
\* that repeats the request accepted just before it leaves the record as it was.
C32_ReplayAddsNothing ==
    [][\A d \in DeviceIds :
         /\ (StoredFor(d) /\ EntryOf(last'.arg) \in hbz[d].set)
                => /\ hbz'[d].set \subseteq hbz[d].set
                   /\ DistractCount(LoadRecentHeartbeats(d)')
                          <= DistractCount(LoadRecentHeartbeats(d))
                   /\ ScreenOnCount(LoadRecentHeartbeats(d)')
                          <= ScreenOnCount(LoadRecentHeartbeats(d))
         /\ (StoredFor(d) /\ last.status = 200 /\ last' = last)
                => hbz'[d] = hbz[d]]_vars

\* d1 had two heartbeats accepted at this instant, the second a replay of the
\* first with a distracting app and the screen on: the record holds one entry
\* for them
C32_Witness ==
    /\ last.op = "heartbeat" /\ last.status = 200
    /\ last.arg.foreground_app = <<YouTube>> /\ last.arg.screen_on
    /\ tasks = <<"d1", "d1">>
    /\ Cardinality({e \in hbz["d1"].set : e.ts = now}) = 1

(***************************************************************************)
(* Claims about repeated blocks, checked under SpecReversal and SpecBlock. *)
(***************************************************************************)
ActiveRecords == {id \in 1..Len(records) : records[id].active}

\* C33 as stated: at most one BlockRecord is active at any time
C33_AtMostOneActiveRecord == Cardinality(ActiveRecords) <= 1

\* two records of the policy path are active, the rule list holds the domain
\* list twice and two reversal jobs are registered
C33_TwoActiveRecords ==
    /\ Cardinality(ActiveRecords) = 2
    /\ last.op = "evaluate" /\ last.detail = "blocked"
    /\ Managed(hosts) = BLOCK_DOMAINS_DEFAULT \o BLOCK_DOMAINS_DEFAULT
    /\ Cardinality(jobs) = 2


\* the domains that have more than one managed entry in the rule list h
Repeated(h) ==
    {Managed(h)[i] : i \in {k \in 1..Len(Managed(h)) :
                              \E j \in 1..Len(Managed(h)) :
                                  j # k /\ Managed(h)[j] = Managed(h)[k]}}

\* C34 as stated: the rule list never holds more than one managed entry for the
\* same domain
C34_OneEntryPerDomain == Repeated(hosts) = {}

\* one policy apply on top of the entries of a manual block or of a noise
\* sample: youtube.com has two managed entries
C34_DomainListedTwice ==
    /\ last.op = "evaluate" /\ last.detail = "blocked"
    /\ Len(records) = 1
    /\ "youtube.com" \in Repeated(hosts)

(***************************************************************************)
(* Claims about concurrent pairing, checked under SpecPairing.             *)
(***************************************************************************)
\* no pair request is in flight
NoPairInFlight == \A h \in PairHandlers : pairing[h].pc = "idle"

\* C35 as stated: once the pair requests have been answered, the secret the
\* last successful pair call of a device returned is the secret stored in the
\* device's row (the table holds one row per device_id: a second INSERT is
\* refused).
C35_LastPairedSecretStored ==
    NoPairInFlight =>
        \A d \in DeviceIds :
            issued[d] # <<>> => devices[d].secret = LastIssued(d)

\* what does hold: a refused INSERT answers 500 and leaves the row alone, and
\* once the requests have been answered the stored secret is one that some
\* pair call of the device returned
C35_StoredSecretWasReturned ==
    NoPairInFlight =>
        \A d \in DeviceIds :
            devices[d].secret # NoSecret
                => \E i \in 1..Len(issued[d]) : issued[d][i] = devices[d].secret

\* two pair requests of one device have been answered "paired", the later
\* answer carries a secret that is not the stored one
C35_StaleSecretReturned ==
    /\ NoPairInFlight
    /\ last.op = "pair" /\ last.status = 200
    /\ Len(issued[last.dev]) = 2
    /\ devices[last.dev].secret # last.secret

\* d1 signs with the secret of the pair response it received last and is
\* answered 403
C35_LastPairedRejected ==
    /\ NoPairInFlight
    /\ last.op = "heartbeat" /\ last.dev = "d1"
    /\ last.status = 403 /\ last.detail = "invalid signature"
    /\ last.sig = HmacSha256(LastIssued("d1"), last.body)

\* two first-time pairings of one device raced: one was answered 500, the row
\* holds the secret of the other
C35_SecondInsertRefused ==
    /\ last.op = "pair" /\ last.status = 500
    /\ devices[last.dev].exists
    /\ \E h \in PairHandlers :
          /\ pairing[h].dev = last.dev /\ pairing[h].pc = "respond"
          /\ pairing[h].secret = devices[last.dev].secret

(***************************************************************************)
(* Claims about the isolation of devices, checked under SpecIsolation.     *)
(***************************************************************************)
\* C36: a heartbeat carrying one device_id, whatever its outcome, leaves the
\* rate-limit counter, the report record, the Device row and hence the counts
\* of every other device as they were; and the status of a device's heartbeat
\* is determined by Redis, that device's own counter and row and the request
\* alone.  Two runs that differ only in the requests of A therefore answer
\* B's heartbeats alike and compute the same counts for B.
C36_DevicesIsolated ==
    [][\A b \in DeviceIds :
         /\ (last'.op = "heartbeat" /\ last'.dev # b)
                => /\ rl'[b] = rl[b]
                   /\ hbz'[b] = hbz[b]
                   /\ devices'[b] = devices[b]
                   /\ DistractCount(LoadRecentHeartbeats(b)')
                          = DistractCount(LoadRecentHeartbeats(b))
                   /\ ScreenOnCount(LoadRecentHeartbeats(b)')
                          = ScreenOnCount(LoadRecentHeartbeats(b))
         /\ (last'.op = "heartbeat" /\ last'.dev = b)
                => last'.status = HeartbeatStatus(last')]_vars

\* both devices have had a report accepted and stored at this instant, then a
\* request carrying d2 has run into the 429: d1's counter stands at one and
\* its record holds its three reports
C36_Witness ==
    /\ last.op = "heartbeat" /\ last.dev = "d2" /\ last.status = 429
    /\ rl["d1"].count = 1
    /\ Cardinality(hbz["d1"].set) = 3
    /\ \E e \in hbz["d1"].set : e.ts = now
    /\ \E e \in hbz["d2"].set : e.ts = now

=============================================================================
